---- MODULE Spec2Model ----
(***************************************************************************)
(* Model of the IINA YouTube chat plugin.                                  *)
(*                                                                         *)
(* Spec      : the orchestrator of plugin/entry.ts (video-load, ready,     *)
(*             retry, position and window events; the availability probe,  *)
(*             the archived download and the live poller with its timer).  *)
(* FetchSpec : ArchivedChatFetcher.fetchAllMessages of                     *)
(*             plugin/archivedChatFetcher.ts (bootstrap, first page,       *)
(*             segment workers, merge).                                    *)
(***************************************************************************)
EXTENDS Integers, Sequences, FiniteSets, Bags, TLC

\* ------------------------------------------------------------------------
\* Bounds of the model
\* ------------------------------------------------------------------------
\* continuation tokens the server issues in one run (bootstrap ones included)
MaxTokens == 2
\* fetchChatData invocations in flight at the same time
MaxTasks == 2
\* length of the message buffer up to which live polls deliver messages
MaxBuf == 2
\* segment workers a run of fetchAllMessages launches in the model
\* (the source launches PARALLEL_WORKERS = 10 of them)
NumWorkers == 2
\* chat items the server delivers in one run of fetchAllMessages
MaxItems == 2
\* continuation requests the workers of one run issue after their seek requests
MaxFollowUps == 1
\* longest video, in seconds, whose segments are computed under SegmentSpec
MaxLengthSeconds == 600
\* longest buffer sendChatDataTo is applied to under ChunkSpec
MaxBufferLen == 250
\* most runs in the message of an item parseItem is applied to under DecodeSpec
MaxRuns == 1
\* longest buffer and latest timestamp the message list is given under DisplaySpec
MaxListLen == 3
MaxPosition == 2

\* ------------------------------------------------------------------------
\* Values
\* ------------------------------------------------------------------------
Null == "null"
\* YouTube URLs with an extractable video id; the url stands for its id
Videos == {"A", "B"}
\* a URL that fails isYouTubeUrl, and one that passes it but has no id
NotYouTubeUrl == "notYT"
NoIdUrl == "noId"
\* values of core.status.url at a file-loaded event
Urls == Videos \cup {NotYouTubeUrl, NoIdUrl, Null}

\* liveChatMetadata = null
NoMetadata == [null |-> TRUE]
\* liveChatPollingTimer = null (timer handles are positive)
NoTimer == 0
\* core.status.position = null
NullPosition == -1
Positions == {NullPosition, 7}

CHUNK_SIZE == 100
POLL_ERROR_DELAY == 5000
MIN_POLL_INTERVAL == 1000
DEFAULT_TIMEOUT == 5000

\* sizes of the transcript the archived download may yield
ArchivedSizes == {0, 1}
\* sizes of the batch a live poll may yield
BatchSizes == {0, 1}
\* timeoutMs values the server may put in a timed/invalidation continuation
TimeoutInputs == {-200, 0, 2000}

\* undefined, and a defined value v
Undefined == <<>>
Some(v) == <<v>>

Max(a, b) == IF a >= b THEN a ELSE b
Min(a, b) == IF a <= b THEN a ELSE b

VARIABLES
  currentVideoUrl,
  chatData,
  liveMessageIndex,         \* messageIndex of the LiveChatFetcher
  isStandaloneWindowOpen,
  isStandaloneWindowReady,
  isLiveStream,
  liveChatMetadata,
  liveChatPollingTimer,
  timers,                   \* handles of the pending setTimeout(pollLiveChat, ..) timers
  polls,                    \* bag of live poll requests in flight
  tasks,                    \* bag of fetchChatData invocations suspended at an await
  tokenCount,               \* continuation tokens the server has issued so far
  readyInFlight,            \* the standalone webview has a ready signal under way
  out,                      \* what the last handler posted and scheduled, in order
  last                      \* the last handler that ran and its input

orchVars == <<currentVideoUrl, chatData, liveMessageIndex,
              isStandaloneWindowOpen, isStandaloneWindowReady, isLiveStream,
              liveChatMetadata, liveChatPollingTimer, timers, polls, tasks,
              tokenCount, readyInFlight, out, last>>

VARIABLES
  fpc,                      \* where fetchAllMessages stands
  videoHtml,                \* what the later steps read from the video page
  allMessages,
  messageIndex,
  wk,                       \* the fetchSegment call of each worker
  fResult,                  \* what fetchAllMessages returned
  progress,                 \* the last progress event and the number of "complete" ones
  served,                   \* chat items the server has delivered
  followUps,                \* continuation requests the workers have issued
  segments,                 \* the segments fetchAllMessages divided the video into
  http,                     \* number of GET and of POST requests issued so far
  inflight,                 \* the requests of each worker that await their response
  flast                     \* the last step of fetchAllMessages and its input

fetchVars == <<fpc, videoHtml, allMessages, messageIndex, wk, fResult, progress,
               served, followUps, segments, http, inflight, flast>>

\* a call of one of the pure functions of the plugin and of the webview
VARIABLES
  input,                    \* the function called and its arguments
  output                    \* what it returned

callVars == <<input, output>>

\* the chat-data handlers of a webview's useIINAMessages hook
VARIABLES
  hook,                     \* state.messages, chunksRef and expectedChunksRef
  inbox                     \* payloads posted to the webview it has not handled yet

webVars == <<hook, inbox>>

vars == <<orchVars, fetchVars, callVars, webVars>>

\* ------------------------------------------------------------------------
\* Messages and payloads
\* ------------------------------------------------------------------------
\* a chat message: the video it belongs to, where it came from, its rank
Msg(v, src, n) == [video |-> v, src |-> src, n |-> n]

\* parseChatData of the transcript file of video v holding n messages
ParsedTranscript(v, n) == [i \in 1..n |-> Msg(v, "archived", i)]

\* faulty variant of LiveBatch: the index restarts with every batch
LiveBatch_perBatch(c, n) == [i \in 1..n |-> Msg(c.video, "live", i - 1)]

\* the batch LiveChatFetcher.parseActions makes of the n items of a poll response
\* for continuation c: each item draws the next messageIndex, which is its id
\* (live-<index>) where the server gave none
LiveBatch(c, n) == [i \in 1..n |-> Msg(c.video, "live", liveMessageIndex + i - 1)]

Payload(to, name, data) == [to |-> to, name |-> name, data |-> data]

sendToSidebar(name, data) == <<Payload("sidebar", name, data)>>

\* open, ready: the window flags at the time of the call
sendToStandaloneWindow(open, ready, name, data) ==
  IF open /\ ready THEN <<Payload("window", name, data)>> ELSE <<>>

postToStandaloneWindow(name, data) == <<Payload("window", name, data)>>

sendToAll(open, ready, name, data) ==
  sendToSidebar(name, data) \o sendToStandaloneWindow(open, ready, name, data)

Info(text) == [message |-> text]
Loading(b) == [loading |-> b]

\* faulty variant of CeilDiv: rounds down
CeilDiv_floor(n, d) == n \div d

CeilDiv(n, d) == (n + d - 1) \div d

\* the payloads of sendChatDataTo for buffer buf: (name, data) pairs in order
ChatDataPayloads(buf) ==
  LET totalChunks == CeilDiv(Len(buf), CHUNK_SIZE)
      chunkAt(i) ==
        LET start == i * CHUNK_SIZE
            end == Min(start + CHUNK_SIZE, Len(buf))
        IN  [name |-> "chat-data-chunk",
             data |-> [chunk |-> SubSeq(buf, start + 1, end), chunkIndex |-> i,
                       totalChunks |-> totalChunks, start |-> start, end |-> end]]
  IN  [k \in 1..totalChunks |-> chunkAt(k - 1)]
        \o <<[name |-> "chat-data-complete", data |-> [totalMessages |-> Len(buf)]]>>

RECURSIVE FlatMap(_, _, _, _)
\* kind: "sidebar", "window" (posted directly) or "all" (sendToAll)
FlatMap(kind, open, ready, ps) ==
  IF ps = <<>> THEN <<>>
  ELSE LET p == Head(ps)
           one == CASE kind = "sidebar" -> sendToSidebar(p.name, p.data)
                    [] kind = "window" -> postToStandaloneWindow(p.name, p.data)
                    [] OTHER -> sendToAll(open, ready, p.name, p.data)
       IN  one \o FlatMap(kind, open, ready, Tail(ps))

sendChatDataTo(kind, open, ready, buf) == FlatMap(kind, open, ready, ChatDataPayloads(buf))

PreferencesUpdate == [preferences |-> TRUE]

\* ------------------------------------------------------------------------
\* URL helpers
\* ------------------------------------------------------------------------
\* faulty variant of isYouTubeUrl: every URL passes
isYouTubeUrl_any(u) == TRUE

isYouTubeUrl(u) == u \in Videos \cup {NoIdUrl}
extractVideoId(u) == IF u \in Videos THEN u ELSE Null

\* the record of a handler run: its kind, the video it is about, its outcome, its input
Step(op, v, res, arg) == [op |-> op, video |-> v, res |-> res, arg |-> arg]
NoArg == [none |-> TRUE]

\* ------------------------------------------------------------------------
\* Initial state: the module-level state of entry.ts once iina.window-loaded
\* has registered the sidebar's handlers
\* ------------------------------------------------------------------------
OrchInit ==
  /\ currentVideoUrl = Null
  /\ chatData = <<>>
  /\ liveMessageIndex = 0
  /\ isStandaloneWindowOpen = FALSE
  /\ isStandaloneWindowReady = FALSE
  /\ isLiveStream = FALSE
  /\ liveChatMetadata = NoMetadata
  /\ liveChatPollingTimer = NoTimer
  /\ timers = {}
  /\ polls = EmptyBag
  /\ tasks = EmptyBag
  /\ tokenCount = 0
  /\ readyInFlight = FALSE
  /\ out = <<>>
  /\ last = Step("init", Null, "none", NoArg)

\* ------------------------------------------------------------------------
\* ArchivedChatFetcher (plugin/archivedChatFetcher.ts): values
\* ------------------------------------------------------------------------
DEFAULT_DURATION_MS == 7200000
PARALLEL_WORKERS == 10
LAST_SEGMENT_MARGIN == 60000

Workers == 0..(NumWorkers - 1)

\* ids the server puts on chat items, and the absence of one
ServerIds == {"x"}
NoId == ""
\* videoOffsetTimeMsec values of the chat items
Offsets == {500, 2500}
\* lengthSeconds of the video page (0: absent, or not a positive number)
LengthInputs == {0, 3}

\* a replayChatItemAction holding one displayable chat item
RawItem(id, off) == [id |-> id, offsetMs |-> off]
RawItems == {RawItem(id, off) : id \in ServerIds \cup {NoId}, off \in Offsets}
\* the action lists of at most n items a response may carry
RawSeqs(n) == UNION {[1..k -> RawItems] : k \in 0..n}

\* the id parseItem gives an item: the server's, or archived-<index>
MessageId(item, index) ==
  IF item.id # NoId THEN [src |-> "server", name |-> item.id, index |-> 0]
  ELSE [src |-> "archived", name |-> NoId, index |-> index]

\* parseActions with messageIndex = index before the call; timestamp is kept in
\* milliseconds (offsetMs / 1000 in the source, read back as timestamp * 1000)
parseActions(items, index) ==
  [k \in 1..Len(items) |->
     [id |-> MessageId(items[k], index + k - 1), timestamp |-> items[k].offsetMs]]

\* parseReplayResponse: the offset of the last action, if any
NullOffset == -1
parsedOffset(items) == IF items = <<>> THEN NullOffset ELSE items[Len(items)].offsetMs

\* extractVideoDurationFromHtml, and the fallback of fetchAllMessages
videoDurationMs(html) ==
  IF html.lengthSeconds > 0 THEN html.lengthSeconds * 1000 ELSE DEFAULT_DURATION_MS

\* faulty variant of Segments: the last segment is not extended past the end
Segments_noMargin(duration, n) ==
  [i \in 0..(n - 1) |->
     [start |-> (i * duration) \div n, end |-> ((i + 1) * duration) \div n]]

\* the segments of fetchAllMessages for n workers
Segments(duration, n) ==
  [i \in 0..(n - 1) |->
     [start |-> (i * duration) \div n,
      end |-> IF i = n - 1 THEN duration + LAST_SEGMENT_MARGIN
              ELSE ((i + 1) * duration) \div n]]

\* Array.prototype.sort with comparator (a, b) => a.key - b.key: ascending, stable
RECURSIVE InsertSorted(_, _)
InsertSorted(s, e) ==
  IF s = <<>> THEN <<e>>
  ELSE IF e.key < Head(s).key THEN <<e>> \o s
  ELSE <<Head(s)>> \o InsertSorted(Tail(s), e)

RECURSIVE SortByKey(_)
SortByKey(s) ==
  IF s = <<>> THEN <<>>
  ELSE InsertSorted(SortByKey(SubSeq(s, 1, Len(s) - 1)), s[Len(s)])

Values(s) == [i \in 1..Len(s) |-> s[i].val]

\* faulty variant of sortByTimestamp: the list is left as merged
sortByTimestamp_asMerged(msgs) == msgs

\* allMessages.sort((a, b) => a.timestamp - b.timestamp)
sortByTimestamp(msgs) ==
  Values(SortByKey([i \in 1..Len(msgs) |-> [key |-> msgs[i].timestamp, val |-> msgs[i]]]))

\* workerResults.sort((a, b) => a.startOffsetMs - b.startOffsetMs)
sortWorkerResults(results) ==
  Values(SortByKey([i \in 1..Len(results) |->
                      [key |-> results[i].startOffsetMs, val |-> results[i]]]))

HasId(msgs, id) == \E i \in 1..Len(msgs) : msgs[i].id = id

\* the dedup loop over one worker's messages; seenIds holds the ids of acc
RECURSIVE pushUnseen(_, _)
pushUnseen(acc, msgs) ==
  IF msgs = <<>> THEN acc
  ELSE pushUnseen(IF HasId(acc, Head(msgs).id) THEN acc ELSE Append(acc, Head(msgs)),
                  Tail(msgs))

RECURSIVE mergeWorkers(_, _)
mergeWorkers(acc, results) ==
  IF results = <<>> THEN acc
  ELSE mergeWorkers(pushUnseen(acc, Head(results).messages), Tail(results))

\* merge and deduplicate, then sort by timestamp
mergeAndSort(first, results) == sortByTimestamp(mergeWorkers(first, sortWorkerResults(results)))

NoResult == [success |-> FALSE, messages |-> <<>>, error |-> "pending"]
Failure(e) == [success |-> FALSE, messages |-> <<>>, error |-> e]
Success(msgs) == [success |-> TRUE, messages |-> msgs, error |-> ""]

\* a fetchSegment call: pc is "idle", "seek" (first request in flight), "next"
\* (continuation request in flight) or "done"; exit is the statement it returned from
Segment(pc, msgs, fragments, s, e, exit) ==
  [pc |-> pc, messages |-> msgs, fragments |-> fragments,
   startOffsetMs |-> s, endOffsetMs |-> e, exit |-> exit]

FetchInit ==
  /\ fpc = "idle"
  /\ videoHtml = [lengthSeconds |-> 0]
  /\ allMessages = <<>>
  /\ messageIndex = 0
  /\ wk = [w \in Workers |-> Segment("idle", <<>>, 0, 0, 0, "")]
  /\ fResult = NoResult
  /\ progress = [status |-> "none", fetchedMessages |-> 0, completes |-> 0]
  /\ served = 0
  /\ followUps = 0
  /\ segments = <<>>
  /\ http = [get |-> 0, post |-> 0]
  /\ inflight = [w \in Workers |-> <<>>]
  /\ flast = [op |-> "init", arg |-> NoArg]

\* ------------------------------------------------------------------------
\* Orchestrator helpers (plugin/entry.ts)
\* ------------------------------------------------------------------------
Task(v, pc) == [video |-> v, pc |-> pc]
AddTask(t) == tasks (+) SetToBag({t})
MoveTask(t, pc) == (tasks (-) SetToBag({t})) (+) SetToBag({Task(t.video, pc)})
EndTask(t) == tasks (-) SetToBag({t})

\* a continuation token: issued by the server for one session of one video
\* (sess: number of the session's bootstrap token, n: number of this token)
Cont(v, s, n) == [video |-> v, sess |-> s, n |-> n]
\* the metadata of a session: its cursor and the request context of its bootstrap
\* (context: the session the bootstrap was made for)
Metadata(c) == [continuation |-> c, context |-> c.sess]

\* clearTimeout(h) on the runtime's pending timers
ClearTimeout(ts, h) == ts \ {h}

\* a handle setTimeout can return: not pending and not the one still held
NewTimerId == CHOOSE i \in 1..(MaxTokens + 2) :
                 i # liveChatPollingTimer /\ i \notin timers

\* faulty variant of stopLiveChatPolling: the timer is cleared, the session is kept
stopLiveChatPolling_keepsSession ==
  /\ timers' = ClearTimeout(timers, liveChatPollingTimer)
  /\ liveChatPollingTimer' = NoTimer
  /\ UNCHANGED <<isLiveStream, liveChatMetadata>>

\* stopLiveChatPolling
stopLiveChatPolling ==
  /\ timers' = ClearTimeout(timers, liveChatPollingTimer)
  /\ liveChatPollingTimer' = NoTimer
  /\ isLiveStream' = FALSE
  /\ liveChatMetadata' = NoMetadata

\* openStandaloneWindow: the flags after the call; a newly loaded webview
\* sends its ready signal later
openStandaloneWindow ==
  /\ isStandaloneWindowOpen' = TRUE
  /\ readyInFlight' = (readyInFlight \/ ~isStandaloneWindowOpen)

\* faulty variant of autoOpenWhen: the window is never opened
autoOpenWhen_never(autoOpenChatWindow) ==
  UNCHANGED <<isStandaloneWindowOpen, readyInFlight>>

\* if (getPreferences().autoOpenChatWindow) openStandaloneWindow()
autoOpenWhen(autoOpenChatWindow) ==
  IF autoOpenChatWindow THEN openStandaloneWindow
  ELSE UNCHANGED <<isStandaloneWindowOpen, readyInFlight>>

\* (the preference is whatever the user has set when it is read)
autoOpen == \E autoOpenChatWindow \in BOOLEAN : autoOpenWhen(autoOpenChatWindow)

\* fetchChatData(v) up to its first await; pre: what the caller posted before
fetchChatData(v, pre) ==
  IF extractVideoId(v) = Null
  THEN /\ out' = pre \o sendToAll(isStandaloneWindowOpen, isStandaloneWindowReady,
                                  "chat-error", Info("Could not extract video ID"))
       /\ UNCHANGED <<timers, liveChatPollingTimer, isLiveStream, liveChatMetadata, tasks>>
  ELSE /\ BagCardinality(tasks) < MaxTasks
       /\ stopLiveChatPolling
       /\ out' = pre \o sendToAll(isStandaloneWindowOpen, isStandaloneWindowReady,
                                  "chat-info", Info("Checking for chat data..."))
       /\ tasks' = AddTask(Task(v, "probe"))

\* ------------------------------------------------------------------------
\* Events of the host
\* ------------------------------------------------------------------------
\* event iina.file-loaded with core.status.url = u
onFileLoaded(u) ==
  /\ last' = Step("fileLoaded", u, "none", NoArg)
  /\ IF u = Null
     THEN /\ stopLiveChatPolling
          /\ out' = <<>>
          /\ UNCHANGED <<currentVideoUrl, tasks>>
     ELSE IF ~isYouTubeUrl(u)
     THEN /\ stopLiveChatPolling
          /\ out' = sendToAll(isStandaloneWindowOpen, isStandaloneWindowReady,
                              "chat-info", Info("This is not a YouTube video"))
          /\ UNCHANGED <<currentVideoUrl, tasks>>
     ELSE IF extractVideoId(u) = Null
     THEN /\ stopLiveChatPolling
          /\ out' = sendToAll(isStandaloneWindowOpen, isStandaloneWindowReady,
                              "chat-error", Info("Could not extract YouTube video ID"))
          /\ UNCHANGED <<currentVideoUrl, tasks>>
     ELSE /\ currentVideoUrl' = u
          /\ fetchChatData(u, <<>>)
  /\ UNCHANGED <<chatData, liveMessageIndex, isStandaloneWindowOpen,
                 isStandaloneWindowReady, polls, tokenCount, readyInFlight>>

FileLoaded == (\E u \in Urls : onFileLoaded(u)) /\ UNCHANGED <<fetchVars, callVars, webVars>>

\* event mpv.time-pos.changed with core.status.position = position
onPositionChanged(position) ==
  /\ last' = Step("positionChanged", currentVideoUrl, "none", NoArg)
  /\ out' = IF currentVideoUrl = Null \/ Len(chatData) = 0 \/ position = NullPosition
            THEN <<>>
            ELSE sendToAll(isStandaloneWindowOpen, isStandaloneWindowReady,
                           "position-update", [position |-> position])
  /\ UNCHANGED <<currentVideoUrl, chatData, liveMessageIndex,
                 isStandaloneWindowOpen, isStandaloneWindowReady, isLiveStream,
                 liveChatMetadata, liveChatPollingTimer, timers, polls, tasks,
                 tokenCount, readyInFlight>>

PositionChanged ==
  (\E position \in Positions : onPositionChanged(position)) /\ UNCHANGED <<fetchVars, callVars, webVars>>

\* message retry-fetch from the sidebar or the standalone window
onRetryFetch ==
  /\ UNCHANGED <<fetchVars, callVars, webVars>>
  /\ last' = Step("retryFetch", currentVideoUrl, "none", NoArg)
  /\ IF currentVideoUrl # Null
     THEN fetchChatData(currentVideoUrl, <<>>)
     ELSE /\ out' = <<>>
          /\ UNCHANGED <<timers, liveChatPollingTimer, isLiveStream, liveChatMetadata,
                         tasks>>
  /\ UNCHANGED <<currentVideoUrl, chatData, liveMessageIndex,
                 isStandaloneWindowOpen, isStandaloneWindowReady, polls, tokenCount,
                 readyInFlight>>

\* message sidebar-ready from the sidebar
onSidebarReady ==
  /\ UNCHANGED <<fetchVars, callVars, webVars>>
  /\ last' = Step("sidebarReady", currentVideoUrl, "none", NoArg)
  /\ LET prefs == sendToSidebar("preferences-update", PreferencesUpdate)
     IN  IF currentVideoUrl = Null
         THEN /\ out' = prefs \o sendToSidebar("chat-info",
                                               Info("Open a YouTube video to see chat"))
              /\ UNCHANGED <<timers, liveChatPollingTimer, isLiveStream,
                             liveChatMetadata, tasks>>
         ELSE IF Len(chatData) > 0
         THEN /\ out' = prefs \o sendChatDataTo("sidebar", FALSE, FALSE, chatData)
              /\ UNCHANGED <<timers, liveChatPollingTimer, isLiveStream,
                             liveChatMetadata, tasks>>
         ELSE IF isLiveStream
         THEN /\ out' = prefs \o sendToSidebar("chat-loading", Loading(TRUE))
              /\ UNCHANGED <<timers, liveChatPollingTimer, isLiveStream,
                             liveChatMetadata, tasks>>
         ELSE fetchChatData(currentVideoUrl, prefs)
  /\ UNCHANGED <<currentVideoUrl, chatData, liveMessageIndex,
                 isStandaloneWindowOpen, isStandaloneWindowReady, polls, tokenCount,
                 readyInFlight>>

\* message sidebar-ready from the standalone window's webview
onStandaloneWindowReady ==
  /\ UNCHANGED <<fetchVars, callVars, webVars>>
  /\ readyInFlight
  /\ readyInFlight' = FALSE
  /\ isStandaloneWindowReady' = TRUE
  /\ last' = Step("standaloneWindowReady", currentVideoUrl, "none", NoArg)
  /\ LET prefs == postToStandaloneWindow("preferences-update", PreferencesUpdate)
     IN  out' = IF currentVideoUrl = Null
                THEN prefs \o postToStandaloneWindow("chat-info",
                                 Info("Open a YouTube video to see chat"))
                ELSE IF Len(chatData) > 0
                THEN prefs \o sendChatDataTo("window", TRUE, TRUE, chatData)
                ELSE prefs \o postToStandaloneWindow("chat-loading", Loading(TRUE))
  /\ UNCHANGED <<currentVideoUrl, chatData, liveMessageIndex,
                 isStandaloneWindowOpen, isLiveStream, liveChatMetadata,
                 liveChatPollingTimer, timers, polls, tasks, tokenCount>>

\* menu item "Open Chat Window"
toggleStandaloneWindow ==
  /\ UNCHANGED <<fetchVars, callVars, webVars>>
  /\ last' = Step("toggleStandaloneWindow", Null, "none", NoArg)
  /\ out' = <<>>
  /\ IF isStandaloneWindowOpen
     THEN /\ isStandaloneWindowOpen' = FALSE
          /\ isStandaloneWindowReady' = FALSE
          /\ UNCHANGED readyInFlight
     ELSE /\ openStandaloneWindow
          /\ UNCHANGED isStandaloneWindowReady
  /\ UNCHANGED <<currentVideoUrl, chatData, liveMessageIndex,
                 isLiveStream, liveChatMetadata, liveChatPollingTimer, timers, polls,
                 tasks, tokenCount>>

\* event iina.window-will-close
WindowWillClose ==
  /\ UNCHANGED <<fetchVars, callVars, webVars>>
  /\ last' = Step("windowWillClose", Null, "none", NoArg)
  /\ out' = <<>>
  /\ IF isStandaloneWindowOpen
     THEN /\ isStandaloneWindowOpen' = FALSE
          /\ isStandaloneWindowReady' = FALSE
     ELSE UNCHANGED <<isStandaloneWindowOpen, isStandaloneWindowReady>>
  /\ stopLiveChatPolling
  /\ UNCHANGED <<currentVideoUrl, chatData, liveMessageIndex,
                 polls, tasks, tokenCount, readyInFlight>>

\* ------------------------------------------------------------------------
\* External results
\* ------------------------------------------------------------------------
\* outcome of utils.exec(yt-dlp --dump-json): ok = exit 0 with parseable output
ProbeOutputs == [ok : BOOLEAN, is_live : BOOLEAN, live_chat : BOOLEAN]

\* what checkChatAvailability reads of a probe outcome: the fields of the JSON
\* output exist only when the probe succeeded
ProbeRead(r) ==
  [ok |-> r.ok, is_live |-> r.ok /\ r.is_live, live_chat |-> r.ok /\ r.live_chat]

\* faulty variant of checkChatAvailability: a video without live_chat track
\* that is not live counts as available
checkChatAvailability_alwaysAvailable(r) ==
  IF ~r.ok THEN [available |-> FALSE, isLive |-> FALSE]
  ELSE [available |-> TRUE, isLive |-> r.is_live]

\* checkChatAvailability on a probe outcome
checkChatAvailability(r) ==
  IF ~r.ok THEN [available |-> FALSE, isLive |-> FALSE]
  ELSE [available |-> (r.live_chat \/ r.is_live), isLive |-> r.is_live]

\* outcome of LiveChatFetcher.fetchMetadata
MetadataResults == {"ok", "notLive", "error"}

\* outcome of the transcript download: the exec, the file, its size in messages
DownloadOutputs ==
  {[kind |-> "ok", n |-> n] : n \in ArchivedSizes}
    \cup {[kind |-> k, n |-> 0] : k \in {"execFailed", "noFile", "unreadable"}}

\* a live poll response: transport outcome, body, continuation shape, timeoutMs, batch
Response(tr, b, sh, has, t, n) ==
  [transport |-> tr, body |-> b, shape |-> sh, hasTimeout |-> has, timeoutMs |-> t, n |-> n]

PollResponses ==
  {Response("failed", "none", "none", FALSE, 0, 0)}
  \cup {Response("ok", b, "none", FALSE, 0, 0) : b \in {"empty", "unparseable"}}
  \cup {Response("ok", "json", sh, FALSE, 0, n) :
          sh \in {"none", "reload", "timed"}, n \in BatchSizes}
  \cup {Response("ok", "json", "timed", TRUE, t, 0) : t \in TimeoutInputs}
  \cup {Response("ok", "json", "invalidation", TRUE, t, n) :
          t \in TimeoutInputs, n \in BatchSizes}

\* what pollLiveChat's request resolved with, the batch left out
Received(r) ==
  [transport |-> r.transport, body |-> r.body, shape |-> r.shape,
   hasTimeout |-> r.hasTimeout, timeoutMs |-> r.timeoutMs]

\* the token the server issues in its response to a request that sent c
NextCont(c) == Cont(c.video, c.sess, tokenCount + 1)

\* LiveChatFetcher.extractContinuationFromResponse
extractContinuationFromResponse(r, c) ==
  IF r.shape \in {"timed", "invalidation"}
  THEN [found |-> TRUE, continuation |-> NextCont(c),
        timeoutMs |-> IF r.hasTimeout /\ r.timeoutMs # 0 THEN r.timeoutMs
                      ELSE DEFAULT_TIMEOUT]
  ELSE IF r.shape = "reload"
  THEN [found |-> TRUE, continuation |-> NextCont(c), timeoutMs |-> DEFAULT_TIMEOUT]
  ELSE [found |-> FALSE, continuation |-> c, timeoutMs |-> 0]

\* faulty variant of fetchLiveChat: an empty or unparseable body counts as a
\* successful poll without messages and without continuation
fetchLiveChat_bodyNotChecked(c, r) ==
  IF r.transport # "ok"
  THEN [success |-> FALSE, messages |-> <<>>, hasContinuation |-> FALSE,
        continuation |-> c, timeoutMs |-> 0]
  ELSE [success |-> TRUE, messages |-> <<>>, hasContinuation |-> FALSE,
        continuation |-> c, timeoutMs |-> DEFAULT_TIMEOUT]

\* LiveChatFetcher.fetchLiveChat for the request that sent continuation c
fetchLiveChat(c, r) ==
  IF r.transport # "ok" \/ r.body # "json"
  THEN [success |-> FALSE, messages |-> <<>>, hasContinuation |-> FALSE,
        continuation |-> c, timeoutMs |-> 0]
  ELSE LET cd == extractContinuationFromResponse(r, c)
       IN  [success |-> TRUE, messages |-> LiveBatch(c, r.n),
            hasContinuation |-> cd.found, continuation |-> cd.continuation,
            timeoutMs |-> IF cd.found /\ cd.timeoutMs # 0 THEN cd.timeoutMs
                          ELSE DEFAULT_TIMEOUT]

\* ------------------------------------------------------------------------
\* Live poller
\* ------------------------------------------------------------------------
Poll(c) == [continuation |-> c]

\* liveChatPollingTimer = setTimeout(pollLiveChat, delay)
setPollTimer(delay) ==
  /\ timers' = timers \cup {NewTimerId}
  /\ liveChatPollingTimer' = NewTimerId

\* the record of that call among the handler's effects
SetTimeout(delay) == <<Payload("runtime", "setTimeout", [delay |-> delay])>>

\* faulty variant of pollInterval: the floor is missing
pollInterval_noFloor(timeoutMs) == timeoutMs

\* delay before the next poll after a successful poll with a continuation
pollInterval(timeoutMs) == Max(timeoutMs, MIN_POLL_INTERVAL)

\* a pending timer fires and calls pollLiveChat, which runs up to its await
TimerFired ==
  \E t \in timers :
    /\ UNCHANGED <<fetchVars, callVars, webVars>>
    /\ timers' = timers \ {t}
    /\ out' = <<>>
    /\ IF liveChatMetadata = NoMetadata \/ ~isLiveStream
       THEN /\ polls' = polls
            /\ last' = Step("timerFired", Null, "ignored", NoArg)
       ELSE /\ polls' = polls (+) SetToBag({Poll(liveChatMetadata.continuation)})
            /\ last' = Step("timerFired", liveChatMetadata.continuation.video, "polled",
                            NoArg)
    /\ UNCHANGED <<currentVideoUrl, chatData, liveMessageIndex,
                   isStandaloneWindowOpen, isStandaloneWindowReady, isLiveStream,
                   liveChatMetadata, liveChatPollingTimer, tasks, tokenCount,
                   readyInFlight>>

\* pollLiveChat after its await: the request that sent p.continuation resolved with r
pollLiveChat(p, r) ==
  LET result == fetchLiveChat(p.continuation, r)
      arg == Received(r)
      posted == IF result.success /\ Len(result.messages) > 0
                THEN sendToAll(isStandaloneWindowOpen, isStandaloneWindowReady,
                               "live-chat-messages", [messages |-> result.messages])
                ELSE <<>>
  IN  /\ polls' = polls (-) SetToBag({p})
      /\ tokenCount' = IF r.shape = "none" THEN tokenCount ELSE tokenCount + 1
      /\ IF ~result.success
         THEN /\ setPollTimer(POLL_ERROR_DELAY)
              /\ out' = SetTimeout(POLL_ERROR_DELAY)
              /\ last' = Step("pollDone", p.continuation.video, "failure", arg)
              /\ UNCHANGED <<chatData, liveMessageIndex, isLiveStream, liveChatMetadata>>
         ELSE /\ chatData' = chatData \o result.messages
              /\ liveMessageIndex' = liveMessageIndex + Len(result.messages)
              /\ IF isLiveStream /\ result.hasContinuation
                 THEN /\ liveChatMetadata' = [liveChatMetadata EXCEPT
                                                 !.continuation = result.continuation]
                      /\ setPollTimer(pollInterval(result.timeoutMs))
                      /\ out' = posted \o SetTimeout(pollInterval(result.timeoutMs))
                      /\ last' = Step("pollDone", p.continuation.video, "scheduled", arg)
                      /\ UNCHANGED isLiveStream
                 ELSE /\ stopLiveChatPolling
                      /\ out' = posted
                      /\ last' = Step("pollDone", p.continuation.video, "stopped", arg)
      /\ UNCHANGED <<currentVideoUrl, isStandaloneWindowOpen, isStandaloneWindowReady,
                     tasks, readyInFlight>>

PollDone ==
  \E p \in BagToSet(polls) : \E r \in PollResponses :
    /\ (r.shape # "none" => tokenCount < MaxTokens)
    /\ (r.n > 0 => Len(chatData) < MaxBuf)
    /\ pollLiveChat(p, r)
    /\ UNCHANGED <<fetchVars, callVars, webVars>>

\* ------------------------------------------------------------------------
\* fetchChatData after its awaits
\* ------------------------------------------------------------------------
\* what the step that starts the archived path has read: the probe's output and
\* the autoOpenChatWindow preference
ArchivedStart(probe, autoOpenChatWindow) ==
  [ok |-> probe.ok, is_live |-> probe.is_live, live_chat |-> probe.live_chat,
   autoOpen |-> autoOpenChatWindow]

\* faulty variant of fetchArchivedChatData: the download is never started
fetchArchivedChatData_noDownload(t, autoOpenChatWindow) ==
  /\ autoOpenWhen(autoOpenChatWindow)
  /\ out' = sendToAll(isStandaloneWindowOpen', isStandaloneWindowReady,
                      "chat-loading", Loading(TRUE))
  /\ tasks' = EndTask(t)

\* the end of fetchChatData on the archived path, and fetchArchivedChatData up to
\* the await in downloadArchivedChatData
fetchArchivedChatData(t, autoOpenChatWindow) ==
  /\ autoOpenWhen(autoOpenChatWindow)
  /\ out' = sendToAll(isStandaloneWindowOpen', isStandaloneWindowReady,
                      "chat-loading", Loading(TRUE))
  /\ tasks' = MoveTask(t, "download")

\* checkChatAvailability resolved with r for task t
ProbeDone ==
  \E t \in BagToSet(tasks) : \E r \in ProbeOutputs :
    /\ t.pc = "probe"
    /\ UNCHANGED <<fetchVars, callVars, webVars>>
    /\ LET a == checkChatAvailability(r)
       IN  IF ~a.available
           THEN /\ out' = sendToAll(isStandaloneWindowOpen, isStandaloneWindowReady,
                                    "chat-info",
                                    Info("No chat data available for this video"))
                /\ tasks' = EndTask(t)
                /\ last' = Step("probeDone", t.video,
                                IF r.ok THEN "noChat" ELSE "probeFailed", ProbeRead(r))
                /\ UNCHANGED <<chatData, liveMessageIndex, isStandaloneWindowOpen,
                               readyInFlight>>
           ELSE IF a.isLive
           THEN \* startLiveChat up to the await of fetchMetadata
                /\ liveMessageIndex' = 0
                /\ chatData' = <<>>
                /\ out' = <<>>
                /\ tasks' = MoveTask(t, "metadata")
                /\ last' = Step("probeDone", t.video, "live", ProbeRead(r))
                /\ UNCHANGED <<isStandaloneWindowOpen, readyInFlight>>
           ELSE \E autoOpenChatWindow \in BOOLEAN :
                  /\ fetchArchivedChatData(t, autoOpenChatWindow)
                  /\ last' = Step("probeDone", t.video, "archived",
                                  ArchivedStart(ProbeRead(r), autoOpenChatWindow))
                  /\ UNCHANGED <<chatData, liveMessageIndex>>
    /\ UNCHANGED <<currentVideoUrl,
                   isStandaloneWindowReady, isLiveStream, liveChatMetadata,
                   liveChatPollingTimer, timers, polls, tokenCount>>

\* startLiveChat after fetchMetadata resolved with m, and the rest of fetchChatData
startLiveChat(t, m) ==
  /\ IF m = "notLive"
     THEN \E autoOpenChatWindow \in BOOLEAN :
            /\ fetchArchivedChatData(t, autoOpenChatWindow)
            /\ last' = Step("metadataDone", t.video, m,
                            [autoOpen |-> autoOpenChatWindow])
            /\ UNCHANGED <<isLiveStream, liveChatMetadata, polls, tokenCount>>
     ELSE IF m = "error"
     THEN /\ last' = Step("metadataDone", t.video, m, NoArg)
          /\ out' = sendToAll(isStandaloneWindowOpen, isStandaloneWindowReady,
                              "chat-error", Info("Failed to fetch live chat metadata"))
                    \o sendToAll(isStandaloneWindowOpen, isStandaloneWindowReady,
                                 "chat-loading", Loading(FALSE))
          /\ tasks' = EndTask(t)
          /\ UNCHANGED <<isLiveStream, liveChatMetadata, polls, tokenCount,
                         isStandaloneWindowOpen, readyInFlight>>
     ELSE /\ last' = Step("metadataDone", t.video, m, NoArg)
          /\ tokenCount < MaxTokens
          /\ tokenCount' = tokenCount + 1
          /\ liveChatMetadata' = Metadata(Cont(t.video, tokenCount + 1, tokenCount + 1))
          /\ isLiveStream' = TRUE
          /\ autoOpen
          /\ polls' = polls (+) SetToBag({Poll(Cont(t.video, tokenCount + 1,
                                                     tokenCount + 1))})
          /\ out' = sendToAll(isStandaloneWindowOpen, isStandaloneWindowReady,
                              "chat-info",
                              Info("Live stream detected - fetching live chat..."))
                    \o sendToAll(isStandaloneWindowOpen', isStandaloneWindowReady,
                                 "chat-loading", Loading(FALSE))
          /\ tasks' = EndTask(t)
  /\ UNCHANGED <<currentVideoUrl, chatData, liveMessageIndex,
                 isStandaloneWindowReady, liveChatPollingTimer, timers>>

MetadataDone ==
  \E t \in BagToSet(tasks) : \E m \in MetadataResults :
    /\ t.pc = "metadata"
    /\ startLiveChat(t, m)
    /\ UNCHANGED <<fetchVars, callVars, webVars>>

\* faulty variant of downloadArchivedChatData: a failed download empties the buffer
downloadArchivedChatData_clearsBuffer(t, d) ==
  /\ tasks' = EndTask(t)
  /\ last' = Step("downloadDone", t.video, d.kind, NoArg)
  /\ IF d.kind = "ok"
     THEN /\ chatData' = ParsedTranscript(t.video, d.n)
          /\ out' = sendChatDataTo("all", isStandaloneWindowOpen, isStandaloneWindowReady,
                                   ParsedTranscript(t.video, d.n))
                    \o sendToAll(isStandaloneWindowOpen, isStandaloneWindowReady,
                                 "chat-loading", Loading(FALSE))
     ELSE /\ chatData' = <<>>
          /\ out' = sendToAll(isStandaloneWindowOpen, isStandaloneWindowReady,
                              "chat-error", Info("Failed to fetch chat data"))
                    \o sendToAll(isStandaloneWindowOpen, isStandaloneWindowReady,
                                 "chat-loading", Loading(FALSE))
  /\ UNCHANGED <<currentVideoUrl, liveMessageIndex,
                 isStandaloneWindowOpen, isStandaloneWindowReady, isLiveStream,
                 liveChatMetadata, liveChatPollingTimer, timers, polls, tokenCount,
                 readyInFlight>>

\* downloadArchivedChatData after its await, and the rest of fetchArchivedChatData
downloadArchivedChatData(t, d) ==
  /\ tasks' = EndTask(t)
  /\ last' = Step("downloadDone", t.video, d.kind, NoArg)
  /\ IF d.kind = "ok"
     THEN /\ chatData' = ParsedTranscript(t.video, d.n)
          /\ out' = sendChatDataTo("all", isStandaloneWindowOpen, isStandaloneWindowReady,
                                   ParsedTranscript(t.video, d.n))
                    \o sendToAll(isStandaloneWindowOpen, isStandaloneWindowReady,
                                 "chat-loading", Loading(FALSE))
     ELSE /\ chatData' = chatData
          /\ out' = sendToAll(isStandaloneWindowOpen, isStandaloneWindowReady,
                              "chat-error", Info("Failed to fetch chat data"))
                    \o sendToAll(isStandaloneWindowOpen, isStandaloneWindowReady,
                                 "chat-loading", Loading(FALSE))
  /\ UNCHANGED <<currentVideoUrl, liveMessageIndex,
                 isStandaloneWindowOpen, isStandaloneWindowReady, isLiveStream,
                 liveChatMetadata, liveChatPollingTimer, timers, polls, tokenCount,
                 readyInFlight>>

DownloadDone ==
  \E t \in BagToSet(tasks) : \E d \in DownloadOutputs :
    /\ t.pc = "download"
    /\ downloadArchivedChatData(t, d)
    /\ UNCHANGED <<fetchVars, callVars, webVars>>

\* ------------------------------------------------------------------------
\* ArchivedChatFetcher.fetchAllMessages
\* ------------------------------------------------------------------------
onProgress(status, n) ==
  progress' = [status |-> status, fetchedMessages |-> n,
               completes |-> progress.completes + (IF status = "complete" THEN 1 ELSE 0)]

return(result) ==
  /\ fResult' = result
  /\ fpc' = "done"

\* fetchAllMessages up to the request of the video page
fetchAllMessages ==
  /\ fpc = "idle"
  /\ messageIndex' = 0
  /\ allMessages' = <<>>
  /\ onProgress("fetching", 0)
  /\ fpc' = "videoPage"
  /\ http' = [http EXCEPT !.get = http.get + 1]
  /\ UNCHANGED inflight
  /\ flast' = [op |-> "fetchAllMessages", arg |-> NoArg]
  /\ UNCHANGED <<videoHtml, wk, fResult, served, followUps, segments>>
  /\ UNCHANGED <<orchVars, callVars, webVars>>

\* what the video page may be
VideoPages ==
  [ok : BOOLEAN, ytcfg : {"none", "partial", "ok"}, initialData : BOOLEAN,
   continuation : BOOLEAN, lengthSeconds : LengthInputs]

\* faulty variant of videoPageResponse: the chat page is requested even where the
\* video page holds no initial continuation
videoPageResponse_ignoresMissingContinuation(r) ==
  /\ videoHtml' = [lengthSeconds |-> r.lengthSeconds]
  /\ IF ~r.ok THEN return(Failure("Failed to fetch video page")) /\ UNCHANGED progress
     ELSE IF r.ytcfg = "none"
     THEN return(Failure("Could not extract YouTube configuration")) /\ UNCHANGED progress
     ELSE IF r.ytcfg = "partial"
     THEN return(Failure("Missing API key or context")) /\ UNCHANGED progress
     ELSE IF ~r.initialData
     THEN return(Failure("Could not extract initial data from video page"))
          /\ UNCHANGED progress
     ELSE /\ onProgress("fetching", 0)
          /\ fpc' = "chatPage"
          /\ UNCHANGED fResult
  /\ http' = [http EXCEPT !.get = http.get + (IF fpc' = "chatPage" THEN 1 ELSE 0)]
  /\ UNCHANGED inflight
  /\ flast' = [op |-> "videoPage", arg |-> r]
  /\ UNCHANGED <<allMessages, messageIndex, wk, served, followUps, segments>>

\* step 1: the video page arrived
videoPageResponse(r) ==
  /\ videoHtml' = [lengthSeconds |-> r.lengthSeconds]
  /\ IF ~r.ok THEN return(Failure("Failed to fetch video page")) /\ UNCHANGED progress
     ELSE IF r.ytcfg = "none"
     THEN return(Failure("Could not extract YouTube configuration")) /\ UNCHANGED progress
     ELSE IF r.ytcfg = "partial"
     THEN return(Failure("Missing API key or context")) /\ UNCHANGED progress
     ELSE IF ~r.initialData
     THEN return(Failure("Could not extract initial data from video page"))
          /\ UNCHANGED progress
     ELSE IF ~r.continuation
     THEN return(Failure("No chat replay available for this video")) /\ UNCHANGED progress
     ELSE /\ onProgress("fetching", 0)
          /\ fpc' = "chatPage"
          /\ UNCHANGED fResult
  /\ http' = [http EXCEPT !.get = http.get + (IF fpc' = "chatPage" THEN 1 ELSE 0)]
  /\ UNCHANGED inflight
  /\ flast' = [op |-> "videoPage", arg |-> r]
  /\ UNCHANGED <<allMessages, messageIndex, wk, served, followUps, segments>>

VideoPageResponse ==
  \E r \in VideoPages :
    /\ fpc = "videoPage"
    /\ videoPageResponse(r)
    /\ UNCHANGED <<orchVars, callVars, webVars>>

\* step 4: the workers are launched, each up to its seek request
\* the continuation of the chat page, and the one the response to the k-th
\* request of worker w carries
InitialContinuation == [worker |-> -1, request |-> 0]
Continuation(w, k) == [worker |-> w, request |-> k]

\* the request fetchFragment posts: the player offset goes with a seek offset
\* above 0 only
fetchFragment(continuation, seekOffsetMs) ==
  [continuation |-> continuation,
   playerOffsetMs |-> IF seekOffsetMs # Undefined /\ seekOffsetMs[1] > 0
                      THEN seekOffsetMs ELSE Undefined]

\* faulty variant of followUp: the continuation of the chat page is sent again
followUp_initialContinuation(continuation) ==
  fetchFragment(InitialContinuation, Undefined)

\* the request fetchSegment posts at the end of a turn of its loop
followUp(continuation) == fetchFragment(continuation, Undefined)

launchWorkers(first) ==
  /\ segments' = Segments(videoDurationMs(videoHtml), NumWorkers)
  /\ wk' = [w \in Workers |->
              Segment("seek", <<>>, 0, segments'[w].start, segments'[w].start, "")]
  /\ http' = [http EXCEPT !.post = http.post + NumWorkers]
  /\ inflight' = [w \in Workers |->
                    <<fetchFragment(InitialContinuation, Some(segments'[w].start))>>]
  /\ onProgress("fetching", Len(first))
  /\ fpc' = "workers"
  /\ UNCHANGED fResult

\* what the chat page may be: n is the number of items the server may still deliver
ChatPages(n) ==
  [ok : BOOLEAN, parsed : BOOLEAN, lcc : BOOLEAN, unfiltered : BOOLEAN,
   items : RawSeqs(n), continuation : BOOLEAN]

\* faulty variant of chatPageResponse: the workers are launched even where the
\* first page carries no continuation
chatPageResponse_alwaysLaunches(r) ==
  IF ~r.ok
  THEN /\ return(Failure("Failed to fetch chat page"))
       /\ UNCHANGED <<allMessages, messageIndex, wk, progress, served, segments, http, inflight>>
  ELSE IF ~r.parsed
  THEN /\ return(Failure("Could not parse chat page data"))
       /\ UNCHANGED <<allMessages, messageIndex, wk, progress, served, segments, http, inflight>>
  ELSE IF ~r.lcc
  THEN /\ return(Failure("No chat data found"))
       /\ UNCHANGED <<allMessages, messageIndex, wk, progress, served, segments, http, inflight>>
  ELSE IF r.unfiltered
  THEN /\ launchWorkers(allMessages)
       /\ UNCHANGED <<allMessages, messageIndex, served>>
  ELSE LET firstMessages == parseActions(r.items, messageIndex)
       IN  /\ allMessages' = allMessages \o firstMessages
           /\ messageIndex' = messageIndex + Len(r.items)
           /\ served' = served + Len(r.items)
           /\ launchWorkers(allMessages')

\* steps 2 and 3: the chat page arrived
chatPageResponse(r) ==
  IF ~r.ok
  THEN /\ return(Failure("Failed to fetch chat page"))
       /\ UNCHANGED <<allMessages, messageIndex, wk, progress, served, segments, http, inflight>>
  ELSE IF ~r.parsed
  THEN /\ return(Failure("Could not parse chat page data"))
       /\ UNCHANGED <<allMessages, messageIndex, wk, progress, served, segments, http, inflight>>
  ELSE IF ~r.lcc
  THEN /\ return(Failure("No chat data found"))
       /\ UNCHANGED <<allMessages, messageIndex, wk, progress, served, segments, http, inflight>>
  ELSE IF r.unfiltered
  THEN /\ launchWorkers(allMessages)
       /\ UNCHANGED <<allMessages, messageIndex, served>>
  ELSE LET firstMessages == parseActions(r.items, messageIndex)
       IN  /\ allMessages' = allMessages \o firstMessages
           /\ messageIndex' = messageIndex + Len(r.items)
           /\ served' = served + Len(r.items)
           /\ IF ~r.continuation
              THEN /\ onProgress("complete", Len(allMessages'))
                   /\ return(Success(allMessages'))
                   /\ UNCHANGED <<wk, segments, http, inflight>>
              ELSE launchWorkers(allMessages')

ChatPageResponse ==
  \E r \in ChatPages(MaxItems - served) :
    /\ fpc = "chatPage"
    /\ chatPageResponse(r)
    /\ flast' = [op |-> "chatPage", arg |-> r]
    /\ UNCHANGED <<videoHtml, followUps>>
    /\ UNCHANGED <<orchVars, callVars, webVars>>

\* ------------------------------------------------------------------------
\* ArchivedChatFetcher.fetchSegment
\* ------------------------------------------------------------------------
\* what a fragment request may resolve with
FragmentResponses(n) ==
  {[kind |-> k, items |-> <<>>, continuation |-> FALSE] : k \in {"failed", "noLcc"}}
    \cup [kind : {"page"}, items : RawSeqs(n), continuation : BOOLEAN]

\* faulty variant of returnSegment: a failed request drops what was collected
returnSegment_dropsOnFailure(seg, exit) ==
  [seg EXCEPT !.pc = "done", !.exit = exit,
              !.messages = IF exit \in {"seekFailed", "requestFailed"} THEN <<>>
                           ELSE seg.messages]

\* return { workerId, messages, fragments, startOffsetMs, endOffsetMs }
returnSegment(seg, exit) == [seg EXCEPT !.pc = "done", !.exit = exit]

\* faulty variant of filterSegment: the upper end of the segment is not tested
RECURSIVE filterSegment_noUpperBound(_, _, _)
filterSegment_noUpperBound(seg, range, msgs) ==
  IF msgs = <<>> THEN seg
  ELSE LET msg == Head(msgs)
           pushed == Append(seg.messages, msg)
       IN  IF msg.timestamp >= range.start
           THEN filterSegment_noUpperBound(
                  [seg EXCEPT !.messages = pushed,
                              !.endOffsetMs = Max(seg.endOffsetMs, msg.timestamp)],
                  range, Tail(msgs))
           ELSE filterSegment_noUpperBound(seg, range, Tail(msgs))

\* the filter loop over the messages of one fragment
RECURSIVE filterSegment(_, _, _)
filterSegment(seg, range, msgs) ==
  IF msgs = <<>> THEN seg
  ELSE LET msg == Head(msgs)
           msgOffsetMs == msg.timestamp
           pushed == Append(seg.messages, msg)
       IN  IF msgOffsetMs >= range.start /\ msgOffsetMs < range.end
           THEN filterSegment(
                  [seg EXCEPT !.messages = pushed,
                              !.endOffsetMs = Max(seg.endOffsetMs, msgOffsetMs),
                              !.startOffsetMs = IF seg.fragments = 1 /\ Len(pushed) = 1
                                                THEN msgOffsetMs ELSE seg.startOffsetMs],
                  range, Tail(msgs))
           ELSE filterSegment(seg, range, Tail(msgs))

\* faulty variant of fetchSegment: the reported offset is not compared with the
\* end of the segment
fetchSegment_ignoresOffset(seg, range, r, index) ==
  IF r.kind = "failed"
  THEN returnSegment(seg, IF seg.pc = "seek" THEN "seekFailed" ELSE "requestFailed")
  ELSE IF r.kind = "noLcc"
  THEN returnSegment(seg, "noLcc")
  ELSE LET counted == [seg EXCEPT !.fragments = seg.fragments + 1]
           filtered == filterSegment(counted, range, parseActions(r.items, index))
       IN  IF ~r.continuation
           THEN returnSegment(filtered, "noContinuation")
           ELSE [filtered EXCEPT !.pc = "next"]

\* fetchSegment of worker w from the arrival of response r to its next await or return
fetchSegment(seg, range, r, index) ==
  IF r.kind = "failed"
  THEN returnSegment(seg, IF seg.pc = "seek" THEN "seekFailed" ELSE "requestFailed")
  ELSE IF r.kind = "noLcc"
  THEN returnSegment(seg, "noLcc")
  ELSE LET counted == [seg EXCEPT !.fragments = seg.fragments + 1]
           filtered == filterSegment(counted, range, parseActions(r.items, index))
           offset == parsedOffset(r.items)
       IN  IF offset # NullOffset /\ offset >= range.end
           THEN returnSegment(filtered, "pastEnd")
           ELSE IF ~r.continuation
           THEN returnSegment(filtered, "noContinuation")
           ELSE [filtered EXCEPT !.pc = "next"]

\* the results Promise.all hands over: in the order of the workers
workerResults(segs) == [i \in 1..NumWorkers |-> segs[i - 1]]

SumMessages(segs) ==
  LET RECURSIVE Sum(_)
      Sum(i) == IF i = NumWorkers THEN 0 ELSE Len(segs[i].messages) + Sum(i + 1)
  IN  Sum(0)

\* faulty variant of allSettled: the first worker that returns resolves the join
allSettled_any(segs) == \E v \in Workers : segs[v].pc = "done"

\* Promise.all over the workers' promises has resolved
allSettled(segs) == \A v \in Workers : segs[v].pc = "done"

\* the response r to worker w's request arrived; when the last worker returns,
\* Promise.all resolves and fetchAllMessages runs to its end
workerResponse(w, r) ==
  LET range == segments[w]
      seg == fetchSegment(wk[w], range, r, messageIndex)
      segs == [wk EXCEPT ![w] = seg]
      continuation == Continuation(w, wk[w].fragments + 1)
  IN  /\ wk' = segs
      /\ messageIndex' = messageIndex + Len(r.items)
      /\ served' = served + Len(r.items)
      /\ followUps' = followUps + (IF seg.pc = "next" THEN 1 ELSE 0)
      /\ http' = [http EXCEPT !.post = http.post + (IF seg.pc = "next" THEN 1 ELSE 0)]
      /\ inflight' = [inflight EXCEPT ![w] =
                        Tail(@) \o (IF seg.pc = "next" THEN <<followUp(continuation)>>
                                    ELSE <<>>)]
      /\ flast' = [op |-> "workerResponse",
                   arg |-> [w |-> w, r |-> r,
                            continuation |-> IF r.kind = "page" /\ r.continuation
                                             THEN Some(continuation) ELSE Undefined]]
      /\ IF allSettled(segs)
         THEN /\ allMessages' = mergeAndSort(allMessages, workerResults(segs))
              /\ onProgress("complete", Len(allMessages'))
              /\ return(Success(allMessages'))
         ELSE /\ IF r.kind = "page"
                 THEN onProgress("fetching", SumMessages(segs) + Len(allMessages))
                 ELSE UNCHANGED progress
              /\ UNCHANGED <<allMessages, fResult, fpc>>

WorkerResponse ==
  \E w \in Workers : \E r \in FragmentResponses(MaxItems - served) :
    /\ fpc = "workers"
    /\ wk[w].pc \in {"seek", "next"}
    /\ (r.continuation => followUps < MaxFollowUps)
    /\ workerResponse(w, r)
    /\ UNCHANGED <<videoHtml, segments>>
    /\ UNCHANGED <<orchVars, callVars, webVars>>

FetchNext ==
  \/ fetchAllMessages
  \/ VideoPageResponse
  \/ ChatPageResponse
  \/ WorkerResponse

\* ------------------------------------------------------------------------
\* Optional values and strings
\* ------------------------------------------------------------------------

\* a string is the sequence of its characters
HexDigits == <<"0", "1", "2", "3", "4", "5", "6", "7", "8", "9",
               "a", "b", "c", "d", "e", "f">>

\* String.prototype.padStart with a one-character filler
RECURSIVE padStart(_, _, _)
padStart(str, targetLength, ch) ==
  IF Len(str) >= targetLength THEN str ELSE padStart(<<ch>> \o str, targetLength, ch)

\* String.prototype.slice(from) and slice(0, to)
sliceFrom(str, from) == SubSeq(str, from + 1, Len(str))
sliceTo(str, to) == SubSeq(str, 1, Min(to, Len(str)))

\* ------------------------------------------------------------------------
\* colorToHex (plugin/entry.ts and ArchivedChatFetcher)
\* ------------------------------------------------------------------------
\* a colour number of up to 32 bits, signed or unsigned, is written as the pair
\* of its 16-bit halves: the number is hi * 65536 + lo with 0 <= lo < 65536
Color(hi, lo) == [hi |-> hi, lo |-> lo]

\* colorNum >>> 0
ToUint32(colorNum) == Color(colorNum.hi % 65536, colorNum.lo)

\* the four hexadecimal digits of a 16-bit half
Digits4(n) ==
  <<HexDigits[(n \div 4096) + 1], HexDigits[((n \div 256) % 16) + 1],
    HexDigits[((n \div 16) % 16) + 1], HexDigits[(n % 16) + 1]>>

RECURSIVE stripLeadingZeros(_)
stripLeadingZeros(str) ==
  IF Len(str) > 1 /\ Head(str) = "0" THEN stripLeadingZeros(Tail(str)) ELSE str

\* Number.prototype.toString(16) of an unsigned 32-bit number
toString16(unsigned) == stripLeadingZeros(Digits4(unsigned.hi) \o Digits4(unsigned.lo))

\* faulty variant of colorToHex: the digits are not padded to 8
colorToHex_unpadded(colorNum) ==
  IF colorNum = Undefined THEN Undefined
  ELSE LET hex == toString16(ToUint32(colorNum[1]))
       IN  Some(<<"#">> \o sliceFrom(hex, 2) \o sliceTo(hex, 2))

\* colorNum is Undefined or Some(colour number)
colorToHex(colorNum) ==
  IF colorNum = Undefined THEN Undefined
  ELSE LET unsigned == ToUint32(colorNum[1])
           hex == padStart(toString16(unsigned), 8, "0")
           a == sliceTo(hex, 2)
           rgb == sliceFrom(hex, 2)
       IN  Some(<<"#">> \o rgb \o a)

\* the colour numbers colorToHex is applied to: halves around the byte borders,
\* 0xFFAABBCC, and the negative numbers of the same 32 bits
ColorHighs == {0, 1, 15, 255, 256, 4095, 32767, 32768, 65450, 65535,
               -1, -86, -32768, -65281}
ColorLows == {0, 1, 255, 256, 2748, 48076, 65535}
ColorInputs == {Undefined} \cup {Some(Color(hi, lo)) : hi \in ColorHighs, lo \in ColorLows}

\* ------------------------------------------------------------------------
\* Renderer decoder: parseItem, in ArchivedChatFetcher and in LiveChatFetcher
\* ------------------------------------------------------------------------
\* a text is the sequence of its non-empty pieces; "" is the empty sequence
\* a run of a message: text is "" where the run has none, emoji is optional
TextRun(t) == [text |-> t, emoji |-> Undefined]
EmojiRun(emojiId, shortcut) ==
  [text |-> "", emoji |-> Some([emojiId |-> emojiId, shortcut |-> shortcut])]

\* a text run, a run with neither text nor emoji, an emoji with an id, an emoji
\* with a shortcut, an emoji with neither
Runs == {TextRun("a"), TextRun(""), EmojiRun("e", ""), EmojiRun("", ":s:"),
         EmojiRun("", "")}

\* r.message?.runs: undefined or an array of at most n runs
RunsInputs(n) == {Undefined} \cup {Some(rs) : rs \in UNION {[1..k -> Runs] : k \in 0..n}}

Piece(str) == IF str = "" THEN <<>> ELSE <<str>>

\* the loop of parseMessageRuns over the runs rs
RECURSIVE parseRuns(_)
parseRuns(rs) ==
  IF rs = <<>> THEN [text |-> <<>>, messageRuns |-> <<>>]
  ELSE LET run == Head(rs)
           rest == parseRuns(Tail(rs))
       IN  IF run.text # ""
           THEN [text |-> <<run.text>> \o rest.text,
                 messageRuns |-> <<[type |-> "text", text |-> run.text]>>
                                   \o rest.messageRuns]
           ELSE IF run.emoji # Undefined
           THEN LET emoji == run.emoji[1]
                IN  [text |-> Piece(IF emoji.shortcut # "" THEN emoji.shortcut
                                    ELSE emoji.emojiId) \o rest.text,
                     messageRuns |-> <<[type |-> "emoji", emoji |-> emoji]>>
                                       \o rest.messageRuns]
           ELSE rest

parseMessageRuns(runs) ==
  IF runs = Undefined \/ runs = Some(<<>>) THEN [text |-> <<>>, messageRuns |-> <<>>]
  ELSE parseRuns(runs[1])

\* the colour fields of the paid renderers
PaidColorFields == {"headerBackgroundColor", "headerTextColor", "bodyBackgroundColor",
                    "bodyTextColor", "authorNameTextColor"}
StickerColorFields == {"backgroundColor", "authorNameTextColor"}

parseSuperChatColors(r) ==
  LET colors == [f \in PaidColorFields |-> colorToHex(r.colors[f])]
      hasColors == \E f \in PaidColorFields : colors[f] # Undefined
  IN  IF hasColors THEN Some(colors) ELSE Undefined

\* the keys parseItem tests, in the order it tests them
RendererKeys ==
  <<"liveChatTextMessageRenderer", "liveChatPaidMessageRenderer",
    "liveChatPaidStickerRenderer", "liveChatMembershipItemRenderer",
    "liveChatSponsorshipsGiftPurchaseAnnouncementRenderer",
    "liveChatViewerEngagementMessageRenderer">>

\* the first of the keys the item has, or "none"
RECURSIVE FirstKey(_, _)
FirstKey(keys, i) ==
  IF i > Len(RendererKeys) THEN "none"
  ELSE IF RendererKeys[i] \in keys THEN RendererKeys[i]
  ELSE FirstKey(keys, i + 1)

\* faulty variant of ChatMessage: the paid amount is stored as the membership level
ChatMessage_amountAsLevel(id, type, message, messageRuns, amount, colors, stickerUrl, membershipLevel) ==
  [id |-> id, type |-> type, message |-> message,
   messageRuns |-> IF messageRuns = <<>> THEN Undefined ELSE Some(messageRuns),
   amount |-> amount, colors |-> colors, stickerUrl |-> stickerUrl,
   membershipLevel |-> amount]

\* the fields of a decoded message; an optional field is Undefined or Some(value)
ChatMessage(id, type, message, messageRuns, amount, colors, stickerUrl, membershipLevel) ==
  [id |-> id, type |-> type, message |-> message,
   messageRuns |-> IF messageRuns = <<>> THEN Undefined ELSE Some(messageRuns),
   amount |-> amount, colors |-> colors, stickerUrl |-> stickerUrl,
   membershipLevel |-> membershipLevel]

Or(text, fallback) == IF text # <<>> THEN text ELSE fallback

\* faulty variant of parseItem: a text message without text and runs is kept
parseItem_keepsEmpty(fetcher, item, index) ==
  LET r == item.r
      id == IF r.id # "" THEN [src |-> "server", name |-> r.id, index |-> 0]
            ELSE [src |-> fetcher, name |-> "", index |-> index]
      parsed == parseMessageRuns(r.message)
  IN  Some(ChatMessage(id, "text", parsed.text, parsed.messageRuns, Undefined, Undefined,
                       Undefined, Undefined))

\* parseItem of the fetcher ("archived" or "live") with messageIndex = index
\* before the call; the result is Undefined for null
parseItem(fetcher, item, index) ==
  LET r == item.r
      key == FirstKey(item.keys, 1)
      id == IF r.id # "" THEN [src |-> "server", name |-> r.id, index |-> 0]
            ELSE [src |-> fetcher, name |-> "", index |-> index]
      parsed == parseMessageRuns(r.message)
      text == parsed.text
      messageRuns == parsed.messageRuns
      headerText == parseMessageRuns(r.header).text
  IN  CASE key = "liveChatTextMessageRenderer" ->
             IF text = <<>> /\ Len(messageRuns) = 0 THEN Undefined
             ELSE Some(ChatMessage(id, "text", text, messageRuns, Undefined, Undefined,
                                   Undefined, Undefined))
        [] key = "liveChatPaidMessageRenderer" ->
             Some(ChatMessage(id, "superchat", Or(text, <<"(Super Chat)">>), messageRuns,
                              r.amount, parseSuperChatColors(r), Undefined, Undefined))
        [] key = "liveChatPaidStickerRenderer" ->
             Some(ChatMessage(id, "supersticker", <<"(Super Sticker)">>, <<>>, r.amount,
                              Some([bodyBackgroundColor |->
                                      colorToHex(r.colors["backgroundColor"]),
                                    authorNameTextColor |->
                                      colorToHex(r.colors["authorNameTextColor"])]),
                              r.sticker, Undefined))
        [] key = "liveChatMembershipItemRenderer" ->
             Some(ChatMessage(id, "membership",
                              Or(text, Or(headerText, <<"(New Member)">>)), messageRuns,
                              Undefined, Undefined, Undefined,
                              IF headerText # <<>> THEN Some(headerText) ELSE Undefined))
        [] key = "liveChatSponsorshipsGiftPurchaseAnnouncementRenderer" ->
             Some(ChatMessage(id, "gift", Or(headerText, <<"(Gift Membership)">>), <<>>,
                              Undefined, Undefined, Undefined, Undefined))
        [] key = "liveChatViewerEngagementMessageRenderer" ->
             IF text = <<>> THEN Undefined
             ELSE Some(ChatMessage(id, "system", text, messageRuns, Undefined,
                                   Undefined, Undefined, Undefined))
        [] OTHER -> Undefined

\* the loop of parseActions over the items of the actions, with messageIndex =
\* index before the call: every item draws an index, a null result is skipped
RECURSIVE parseActionItems(_, _, _)
parseActionItems(fetcher, items, index) ==
  IF items = <<>> THEN <<>>
  ELSE LET msg == parseItem(fetcher, Head(items), index)
           rest == parseActionItems(fetcher, Tail(items), index + 1)
       IN  IF msg # Undefined THEN <<msg[1]>> \o rest ELSE rest

\* the items parseItem is applied to
SampleColor == Some(Color(65450, 48076))
ColorFields == PaidColorFields \cup StickerColorFields
\* which colour fields the renderer defines: none, one of them, or all
DefinedColors == {{}} \cup {{f} : f \in ColorFields} \cup {ColorFields}
KeySets ==
  {{}} \cup {{RendererKeys[i]} : i \in 1..Len(RendererKeys)}
    \cup {{"liveChatTextMessageRenderer", "liveChatPaidMessageRenderer"},
           {"liveChatPaidStickerRenderer", "liveChatViewerEngagementMessageRenderer"}}

Renderer(id, message, header, amount, sticker, defined) ==
  [id |-> id, message |-> message, header |-> header, amount |-> amount,
   sticker |-> sticker,
   colors |-> [f \in ColorFields |-> IF f \in defined THEN SampleColor ELSE Undefined]]

Renderers ==
  {Renderer(id, message, header, amount, sticker, defined) :
     id \in {"", "x"}, message \in RunsInputs(MaxRuns),
     header \in {Undefined, Some(<<TextRun("h")>>)},
     amount \in {Undefined, Some("$5")}, sticker \in {Undefined, Some("url")},
     defined \in DefinedColors}

Items == {[keys |-> keys, r |-> r] : keys \in KeySets, r \in Renderers}

\* the items of the batches parseActions is applied to: one of no recognized
\* shape, a text message, a text message without text, a paid message
BatchItems ==
  {[keys |-> {}, r |-> Renderer("u", Some(<<TextRun("a")>>), Undefined, Undefined,
                                Undefined, {})],
   [keys |-> {"liveChatTextMessageRenderer"},
    r |-> Renderer("x", Some(<<TextRun("a")>>), Undefined, Undefined, Undefined, {})],
   [keys |-> {"liveChatTextMessageRenderer"},
    r |-> Renderer("e", Undefined, Undefined, Undefined, Undefined, {})],
   [keys |-> {"liveChatPaidMessageRenderer"},
    r |-> Renderer("y", Undefined, Undefined, Some("$5"), Undefined, {})]}
Batches == UNION {[1..k -> BatchItems] : k \in 0..MaxItems}

\* ------------------------------------------------------------------------
\* Message list of the webview: MessageList.displayMessages
\* ------------------------------------------------------------------------
\* faulty variant of sliceLast: the first n elements are kept
sliceLast_first(seq, n) == SubSeq(seq, 1, n)

\* seq.slice(-n) for 0 < n < seq.length
sliceLast(seq, n) == SubSeq(seq, Len(seq) - n + 1, Len(seq))

reverse(seq) == [i \in 1..Len(seq) |-> seq[Len(seq) - i + 1]]

\* currentPosition is Undefined for null
displayMessages(messages, currentPosition, preferences) ==
  LET byPosition ==
        IF currentPosition # Undefined
        THEN SelectSeq(messages, LAMBDA msg : msg.timestamp <= currentPosition[1])
        ELSE messages
      filtered ==
        IF preferences.maxMessages > 0 /\ Len(byPosition) > preferences.maxMessages
        THEN sliceLast(byPosition, preferences.maxMessages)
        ELSE byPosition
  IN  IF preferences.scrollDirection = "top-to-bottom" THEN reverse(filtered)
      ELSE filtered

\* the props the list is rendered with
CurrentPositions == {Undefined} \cup {Some(p) : p \in 0..MaxPosition}
Buffers ==
  UNION {{[i \in 1..k |-> [id |-> i, timestamp |-> ts[i]]] :
            ts \in [1..k -> 0..MaxPosition]} : k \in 0..MaxListLen}
Preferences ==
  [maxMessages : {-1, 0, 1, 2}, scrollDirection : {"bottom-to-top", "top-to-bottom"}]

\* ------------------------------------------------------------------------
\* Webview: the chat-data handlers of useIINAMessages
\* ------------------------------------------------------------------------
\* chunks is chunksRef.current, a map from chunk index to chunk
Hook(messages, chunks, expectedChunks) ==
  [messages |-> messages, chunks |-> chunks, expectedChunks |-> expectedChunks]
NoChunks == [i \in {} |-> <<>>]

\* handler of chat-data-chunk
onChatDataChunk(h, data) ==
  Hook(h.messages,
       [i \in DOMAIN h.chunks \cup {data.chunkIndex} |->
          IF i = data.chunkIndex THEN data.chunk ELSE h.chunks[i]],
       data.totalChunks)

\* the loop that assembles the chunks 0 .. expectedChunks - 1 that are stored
RECURSIVE assemble(_, _)
assemble(h, i) ==
  IF i >= h.expectedChunks THEN <<>>
  ELSE (IF i \in DOMAIN h.chunks THEN h.chunks[i] ELSE <<>>) \o assemble(h, i + 1)

\* faulty variant of onChatDataComplete: the stored chunks are kept
onChatDataComplete_keepsChunks(h, data) ==
  Hook(assemble(h, 0), h.chunks, h.expectedChunks)

\* handler of chat-data-complete
onChatDataComplete(h, data) == Hook(assemble(h, 0), NoChunks, 0)

\* the handler registered for the payload's name
onChatData(h, p) ==
  CASE p.name = "chat-data-chunk" -> onChatDataChunk(h, p.data)
    [] p.name = "chat-data-complete" -> onChatDataComplete(h, p.data)
    [] OTHER -> h

NoWebview ==
  /\ hook = Hook(<<>>, NoChunks, 0)
  /\ inbox = <<>>

\* ------------------------------------------------------------------------
\* Specifications
\* ------------------------------------------------------------------------
\* no pure function is under test
NoCall ==
  /\ input = [fn |-> "none"]
  /\ output = [returned |-> FALSE]

Init == OrchInit /\ FetchInit /\ NoWebview /\ NoCall

OrchNext ==
  \/ FileLoaded
  \/ PositionChanged
  \/ onRetryFetch
  \/ onSidebarReady
  \/ onStandaloneWindowReady
  \/ toggleStandaloneWindow
  \/ WindowWillClose
  \/ TimerFired
  \/ PollDone
  \/ ProbeDone
  \/ MetadataDone
  \/ DownloadDone

Next == OrchNext

\* the orchestrator
Spec == Init /\ [][Next]_vars

\* one run of fetchAllMessages
FetchSpec == Init /\ [][FetchNext]_vars

\* the division into segments alone, for the number of workers of the source and
\* for every video page that reports a length of up to MaxLengthSeconds seconds
\* (0: no usable length, the default duration applies)
SegmentInit ==
  /\ OrchInit
  /\ NoCall
  /\ NoWebview
  /\ fpc = "idle"
  /\ videoHtml \in [lengthSeconds : 0..MaxLengthSeconds]
  /\ allMessages = <<>>
  /\ messageIndex = 0
  /\ wk = [w \in Workers |-> Segment("idle", <<>>, 0, 0, 0, "")]
  /\ fResult = NoResult
  /\ progress = [status |-> "none", fetchedMessages |-> 0, completes |-> 0]
  /\ served = 0
  /\ followUps = 0
  /\ segments = <<>>
  /\ http = [get |-> 0, post |-> 0]
  /\ inflight = [w \in Workers |-> <<>>]
  /\ flast = [op |-> "init", arg |-> NoArg]

divideIntoSegments ==
  /\ DOMAIN segments = {}
  /\ segments' = Segments(videoDurationMs(videoHtml), PARALLEL_WORKERS)
  /\ UNCHANGED <<fpc, videoHtml, allMessages, messageIndex, wk, fResult, progress,
                 served, followUps, http, inflight, flast>>
  /\ UNCHANGED <<orchVars, callVars, webVars>>

SegmentNext == divideIntoSegments

SegmentSpec == SegmentInit /\ [][SegmentNext]_vars

\* the two fetchers side by side: the orchestrator with its live poller, or one
\* run of fetchAllMessages (entry.ts never calls the ArchivedChatFetcher)
IdNext ==
  \/ fpc = "idle" /\ OrchNext
  \/ last.op = "init" /\ FetchNext

IdSpec == Init /\ [][IdNext]_vars

\* the function under test returns v
Return(v) ==
  /\ ~output.returned
  /\ output' = [returned |-> TRUE, value |-> v]
  /\ UNCHANGED <<input, orchVars, fetchVars, webVars>>

\* colorToHex alone
ColorInit ==
  /\ OrchInit
  /\ FetchInit
  /\ NoWebview
  /\ input \in {[fn |-> "colorToHex", colorNum |-> c] : c \in ColorInputs}
  /\ output = [returned |-> FALSE]

callColorToHex ==
  /\ input.fn = "colorToHex"
  /\ Return(colorToHex(input.colorNum))

ColorNext == callColorToHex

ColorSpec == ColorInit /\ [][ColorNext]_vars

\* the message list alone: its first render, then renders after a seek
DisplayInit ==
  /\ OrchInit
  /\ FetchInit
  /\ NoWebview
  /\ input \in {[fn |-> "displayMessages", messages |-> messages,
                  currentPosition |-> position, preferences |-> preferences,
                  seekFrom |-> Undefined] :
                  messages \in Buffers, position \in CurrentPositions,
                  preferences \in Preferences}
  /\ output = [returned |-> FALSE]

renderMessageList ==
  /\ input.fn = "displayMessages"
  /\ Return(displayMessages(input.messages, input.currentPosition, input.preferences))

\* the position prop changes to an earlier one and the list is computed again
seekBack(p) ==
  /\ input.fn = "displayMessages"
  /\ output.returned
  /\ input.currentPosition # Undefined
  /\ p < input.currentPosition[1]
  /\ input' = [input EXCEPT !.currentPosition = Some(p),
                            !.seekFrom = input.currentPosition]
  /\ output' = [returned |-> TRUE,
                value |-> displayMessages(input.messages, Some(p), input.preferences)]
  /\ UNCHANGED <<orchVars, fetchVars, webVars>>

DisplayNext == renderMessageList \/ \E p \in 0..MaxPosition : seekBack(p)

DisplaySpec == DisplayInit /\ [][DisplayNext]_vars

\* parseItem alone, of either fetcher
DecodeInit ==
  /\ OrchInit
  /\ FetchInit
  /\ NoWebview
  /\ input \in {[fn |-> "parseItem", fetcher |-> f, item |-> item] :
                  f \in {"archived", "live"}, item \in Items}
              \cup {[fn |-> "parseActions", fetcher |-> f, items |-> items] :
                      f \in {"archived", "live"}, items \in Batches}
  /\ output = [returned |-> FALSE]

\* the call draws the next messageIndex of its fetcher
callParseItem ==
  /\ input.fn = "parseItem"
  /\ ~output.returned
  /\ IF input.fetcher = "archived"
     THEN /\ output' = [returned |-> TRUE,
                        value |-> parseItem("archived", input.item, messageIndex)]
          /\ messageIndex' = messageIndex + 1
          /\ UNCHANGED liveMessageIndex
     ELSE /\ output' = [returned |-> TRUE,
                        value |-> parseItem("live", input.item, liveMessageIndex)]
          /\ liveMessageIndex' = liveMessageIndex + 1
          /\ UNCHANGED messageIndex
  /\ UNCHANGED <<webVars, input, currentVideoUrl, chatData, isStandaloneWindowOpen,
                 isStandaloneWindowReady, isLiveStream, liveChatMetadata,
                 liveChatPollingTimer, timers, polls, tasks, tokenCount, readyInFlight,
                 out, last>>
  /\ UNCHANGED <<fpc, videoHtml, allMessages, wk, fResult, progress, served, followUps,
                 segments, http, inflight, flast>>

callParseActions ==
  /\ input.fn = "parseActions"
  /\ ~output.returned
  /\ IF input.fetcher = "archived"
     THEN /\ output' = [returned |-> TRUE,
                        value |-> parseActionItems("archived", input.items,
                                                   messageIndex)]
          /\ messageIndex' = messageIndex + Len(input.items)
          /\ UNCHANGED liveMessageIndex
     ELSE /\ output' = [returned |-> TRUE,
                        value |-> parseActionItems("live", input.items,
                                                   liveMessageIndex)]
          /\ liveMessageIndex' = liveMessageIndex + Len(input.items)
          /\ UNCHANGED messageIndex
  /\ UNCHANGED <<webVars, input, currentVideoUrl, chatData, isStandaloneWindowOpen,
                 isStandaloneWindowReady, isLiveStream, liveChatMetadata,
                 liveChatPollingTimer, timers, polls, tasks, tokenCount, readyInFlight,
                 out, last>>
  /\ UNCHANGED <<fpc, videoHtml, allMessages, wk, fResult, progress, served, followUps,
                 segments, http, inflight, flast>>

DecodeNext == callParseItem \/ callParseActions

DecodeSpec == DecodeInit /\ [][DecodeNext]_vars

\* sendChatDataTo alone, applied to every buffer of up to MaxBufferLen messages
ChunkInit ==
  /\ currentVideoUrl = "A"
  /\ chatData \in {ParsedTranscript("A", n) : n \in 0..MaxBufferLen}
  /\ liveMessageIndex = 0
  /\ isStandaloneWindowOpen = FALSE
  /\ isStandaloneWindowReady = FALSE
  /\ isLiveStream = FALSE
  /\ liveChatMetadata = NoMetadata
  /\ liveChatPollingTimer = NoTimer
  /\ timers = {}
  /\ polls = EmptyBag
  /\ tasks = EmptyBag
  /\ tokenCount = 0
  /\ readyInFlight = FALSE
  /\ out = <<>>
  /\ last = Step("init", Null, "none", NoArg)
  /\ FetchInit
  /\ NoWebview
  /\ NoCall

\* sendChatDataTo(sendToSidebar): the payloads reach the sidebar's webview in order
deliverChatData ==
  /\ last.op = "init"
  /\ out' = sendChatDataTo("sidebar", isStandaloneWindowOpen, isStandaloneWindowReady,
                           chatData)
  /\ inbox' = inbox \o out'
  /\ last' = Step("sendChatDataTo", currentVideoUrl, "sent", NoArg)
  /\ UNCHANGED <<currentVideoUrl, chatData, liveMessageIndex, isStandaloneWindowOpen,
                 isStandaloneWindowReady, isLiveStream, liveChatMetadata,
                 liveChatPollingTimer, timers, polls, tasks, tokenCount, readyInFlight>>
  /\ UNCHANGED <<fetchVars, callVars, hook>>

\* the webview handles the next payload
webviewReceives ==
  /\ inbox # <<>>
  /\ hook' = onChatData(hook, Head(inbox))
  /\ inbox' = Tail(inbox)
  /\ UNCHANGED <<orchVars, fetchVars, callVars>>

\* sizes of the buffer a later download leaves
ReloadSizes == {0, 1, CHUNK_SIZE, CHUNK_SIZE + 1, MaxBufferLen}

\* the buffer is replaced by the transcript of another video, of n messages
replaceBuffer(n) ==
  /\ last.op = "sendChatDataTo"
  /\ inbox = <<>>
  /\ currentVideoUrl = "A"
  /\ currentVideoUrl' = "B"
  /\ chatData' = ParsedTranscript("B", n)
  /\ out' = <<>>
  /\ last' = Step("init", Null, "none", NoArg)
  /\ UNCHANGED <<liveMessageIndex, isStandaloneWindowOpen,
                 isStandaloneWindowReady, isLiveStream, liveChatMetadata,
                 liveChatPollingTimer, timers, polls, tasks, tokenCount, readyInFlight>>
  /\ UNCHANGED <<fetchVars, callVars, webVars>>

ChunkNext ==
  \/ deliverChatData
  \/ webviewReceives
  \/ \E n \in ReloadSizes : replaceBuffer(n)

ChunkSpec == ChunkInit /\ [][ChunkNext]_vars

\* ------------------------------------------------------------------------
\* Properties of the orchestrator (checked under Spec)
\* ------------------------------------------------------------------------
HasMessageOf(buf, v) == \E i \in 1..Len(buf) : buf[i].video = v

\* the payloads of the last handler that carry a message of video v
CarriesMessageOf(p, v) ==
  \/ p.name = "chat-data-chunk" /\ HasMessageOf(p.data.chunk, v)
  \/ p.name = "live-chat-messages" /\ HasMessageOf(p.data.messages, v)

\* C1: when the archived download of a video resolves after another video was
\* loaded, its result is discarded: neither the buffer nor a payload posted to
\* a webview holds a message of the superseded video
C1_StaleDownloadDiscarded ==
  (last.op = "downloadDone" /\ last.video # currentVideoUrl) =>
    /\ ~HasMessageOf(chatData, last.video)
    /\ \A i \in 1..Len(out) : ~CarriesMessageOf(out[i], last.video)

\* C2: at most one live poll request is outstanding in every reachable state
C2_AtMostOnePollOutstanding == BagCardinality(polls) <= 1

\* C3: a live poll of a video that is no longer the loaded one emits no
\* live-chat-messages batch and appends nothing to the buffer
C3_NoBatchOfPreviousVideo ==
  (last.op = "pollDone" /\ last.video # currentVideoUrl) =>
    \A i \in 1..Len(out) : out[i].name # "live-chat-messages"

\* C4: right after a video-load event for URL u (a non-YouTube URL included) the
\* buffer holds no message of another video than u
C4_LoadDiscardsBuffer ==
  last.op = "fileLoaded" => \A i \in 1..Len(chatData) : chatData[i].video = last.video

\* C8: a successful poll whose response has none of the three continuation
\* shapes stops polling: no timer is left pending, the live flag and the
\* session are cleared
C8_NoContinuationStopsPolling ==
  (last.op = "pollDone" /\ last.arg.transport = "ok" /\ last.arg.body = "json"
     /\ last.arg.shape = "none") =>
    /\ last.res = "stopped"
    /\ timers = {}
    /\ liveChatPollingTimer = NoTimer
    /\ ~isLiveStream
    /\ liveChatMetadata = NoMetadata

\* a poll failed: transport failure, empty body or unparseable body
PollFailed(step) ==
  step.op = "pollDone" /\ (step.arg.transport # "ok" \/ step.arg.body # "json")

\* C9: a failed live poll schedules exactly one next poll 5000 ms later and
\* leaves the continuation cursor, the live flag and the buffer unchanged
C9_FailureRetriesAfterFixedDelay ==
  [][PollFailed(last') =>
       /\ last'.res = "failure"
       /\ out' = SetTimeout(5000)
       /\ timers \subseteq timers'
       /\ Cardinality(timers' \ timers) = 1
       /\ liveChatPollingTimer' \in timers' \ timers
       /\ UNCHANGED <<chatData, isLiveStream, liveChatMetadata>>]_vars

\* a failed poll of a running session has just been handled
C9_Witness ==
  /\ PollFailed(last)
  /\ last.arg.body = "unparseable"
  /\ isLiveStream
  /\ liveChatMetadata # NoMetadata
  /\ liveChatPollingTimer \in timers

\* a successful poll with a continuation has scheduled the next one
PollScheduled == last.op = "pollDone" /\ last.res = "scheduled"

\* the delay of the setTimeout call the last handler made
ScheduledDelay == out[Len(out)].data.delay

\* C10 (as stated): the delay after a successful poll with a continuation is
\* max(server-suggested timeout, 1000)
C10_DelayIsMaxOfSuggested ==
  (PollScheduled /\ last.arg.hasTimeout) =>
    ScheduledDelay = Max(last.arg.timeoutMs, 1000)

\* C10 (amended): the delay is max(t, 1000), where t is the server-suggested
\* timeout when it is present and not 0, and 5000 otherwise; it is never below 1000
C10_DelayIsMaxOfEffective ==
  PollScheduled =>
    /\ ScheduledDelay =
         Max(IF last.arg.hasTimeout /\ last.arg.timeoutMs # 0 THEN last.arg.timeoutMs
             ELSE 5000, 1000)
    /\ ScheduledDelay >= 1000

\* the server suggested 0 and the next poll was scheduled
C10_Witness == PollScheduled /\ last.arg.hasTimeout /\ last.arg.timeoutMs = 0

\* the last handler posted a payload named name
Posted(ps, name) == \E i \in 1..Len(ps) : ps[i].name = name

\* C16: when live bootstrapping answers "not live", no chat-error is emitted and
\* no polling is started; the archived download of the same video is started
C16_NotLiveFallsBackToArchived ==
  [][(last'.op = "metadataDone" /\ last'.res = "notLive") =>
       /\ ~Posted(out', "chat-error")
       /\ UNCHANGED <<polls, timers, liveChatPollingTimer, isLiveStream, liveChatMetadata>>
       /\ tasks' = (tasks (-) SetToBag({Task(last'.video, "metadata")}))
                     (+) SetToBag({Task(last'.video, "download")})
       /\ BagIn(Task(last'.video, "metadata"), tasks)]_vars

\* bootstrapping answered "not live" and the download of that video is under way
C16_Witness ==
  /\ last.op = "metadataDone"
  /\ last.res = "notLive"
  /\ BagIn(Task(last.video, "download"), tasks)
  /\ Posted(out, "chat-loading")

\* the probe succeeded and reports neither a live stream nor a live_chat track
NoChatProbe(step) ==
  step.op = "probeDone" /\ step.arg.ok /\ ~step.arg.is_live /\ ~step.arg.live_chat

\* C17: after such a probe the fetch ends with the 'No chat data available'
\* info message: no metadata request, no download, no poll, no timer, no window
C17_NoChatEndsFetch ==
  [][NoChatProbe(last') =>
       /\ Len(out') >= 1
       /\ \A i \in 1..Len(out') :
            /\ out'[i].name = "chat-info"
            /\ out'[i].data = Info("No chat data available for this video")
       /\ BagIn(Task(last'.video, "probe"), tasks)
       /\ tasks' = tasks (-) SetToBag({Task(last'.video, "probe")})
       /\ UNCHANGED <<polls, timers, liveChatPollingTimer, isLiveStream,
                      liveChatMetadata, isStandaloneWindowOpen, readyInFlight,
                      chatData>>]_vars

\* such a probe has just been handled
C17_Witness == NoChatProbe(last) /\ last.res = "noChat" /\ Posted(out, "chat-info")

\* C18: a video-load event with a non-YouTube URL posts only an informational
\* message, one with a YouTube URL without video id posts a chat-error; neither
\* starts a probe, a fetch or a poll
C18_UnsupportedUrlStartsNothing ==
  [][(last'.op = "fileLoaded" /\ last'.video \in {NotYouTubeUrl, NoIdUrl}) =>
       /\ Len(out') >= 1
       /\ \A i \in 1..Len(out') :
            out'[i].name = (IF last'.video = NotYouTubeUrl THEN "chat-info"
                            ELSE "chat-error")
       /\ tasks' = tasks
       /\ polls' = polls
       /\ timers' \subseteq timers
       /\ ~isLiveStream'
       /\ UNCHANGED <<currentVideoUrl, chatData>>]_vars

\* a non-YouTube URL was loaded while a YouTube video was the current one
C18_Witness ==
  /\ last.op = "fileLoaded"
  /\ last.video = NotYouTubeUrl
  /\ currentVideoUrl \in Videos
  /\ Posted(out, "chat-info")

\* C19: a failed availability probe is surfaced as a chat-error, not as the
\* informational 'no chat data available' message
C19_ProbeFailureIsError ==
  (last.op = "probeDone" /\ ~last.arg.ok) =>
    Posted(out, "chat-error") /\ ~Posted(out, "chat-info")

\* ------------------------------------------------------------------------
\* The webview (src/hooks/useIINAMessages.ts)
\* ------------------------------------------------------------------------
\* the loading, error and info fields of AppState
AppState(loading, error, info) == [loading |-> loading, error |-> error, info |-> info]

\* the states the webview may be in when a fetch attempt's messages arrive
AppStates ==
  {AppState(l, e, i) : l \in BOOLEAN, e \in {Null, "earlier error"},
                       i \in {Null, "earlier info"}}

\* the handler iina.onMessage registered for p.name, applied to state st
onMessage(st, p) ==
  CASE p.name = "chat-loading" -> AppState(p.data.loading, Null, Null)
    [] p.name = "chat-data-complete" -> AppState(st.loading, Null, Null)
    [] p.name = "chat-error" -> AppState(FALSE, p.data.message, st.info)
    [] p.name = "chat-info" -> AppState(FALSE, st.error, p.data.message)
    [] OTHER -> st

\* the webview handles the payloads ps in the order they were posted
RECURSIVE onMessages(_, _)
onMessages(st, ps) ==
  IF ps = <<>> THEN st ELSE onMessages(onMessage(st, Head(ps)), Tail(ps))

\* the payloads among ps posted to webview to
PostedTo(ps, to) == SelectSeq(ps, LAMBDA p : p.to = to)

\* a fetch attempt has just failed: the archived download, or live bootstrapping
FetchFailed(step) ==
  \/ step.op = "downloadDone" /\ step.res # "ok"
  \/ step.op = "metadataDone" /\ step.res = "error"

\* C20: once the sidebar has handled every message of a failed fetch attempt,
\* its state shows the error summary and loading is false
C20_WebviewShowsFailure ==
  FetchFailed(last) =>
    \A st \in AppStates :
      LET after == onMessages(st, PostedTo(out, "sidebar"))
      IN  after.error # Null /\ ~after.loading

\* ------------------------------------------------------------------------
\* Properties of fetchAllMessages (checked under FetchSpec)
\* ------------------------------------------------------------------------
\* fetchAllMessages returned from its merge step: every worker has returned
Merged == fpc = "done" /\ \A w \in Workers : wk[w].pc = "done"

\* C5: a successful result holds no two entries with the same id
C5_NoDuplicateIds ==
  (fpc = "done" /\ fResult.success) =>
    \A i, j \in 1..Len(fResult.messages) :
      i # j => fResult.messages[i].id # fResult.messages[j].id

\* C6: the merged list fetchAllMessages returns is in non-decreasing timestamp order
C6_MergedSortedByTimestamp ==
  Merged =>
    \A i, j \in 1..Len(fResult.messages) :
      i < j => fResult.messages[i].timestamp <= fResult.messages[j].timestamp

\* the merge reordered: the message parsed later comes first in the result
C6_Witness ==
  /\ Merged
  /\ \E i, j \in 1..Len(fResult.messages) :
       /\ i < j
       /\ fResult.messages[i].timestamp < fResult.messages[j].timestamp
       /\ fResult.messages[i].id.src = "archived"
       /\ fResult.messages[j].id.src = "archived"
       /\ fResult.messages[i].id.index > fResult.messages[j].id.index

SegmentFailed(seg) == seg.exit \in {"seekFailed", "requestFailed"}

\* C7: whichever workers fail, the merge returns success with (up to
\* deduplication) every message the workers hold, and a failing request leaves
\* the worker's collected messages as they were
C7_PartialFailureKeepsMessages ==
  /\ [](Merged =>
          /\ fResult.success
          /\ \A w \in Workers : \A k \in 1..Len(wk[w].messages) :
               HasId(fResult.messages, wk[w].messages[k].id))
  /\ [][\A w \in Workers :
          (wk[w].pc \in {"seek", "next"} /\ SegmentFailed(wk'[w])) =>
            wk'[w].messages = wk[w].messages]_vars

\* one worker failed on its seek request, another on a continuation request
\* after it had collected a message, and that message is in the result
C7_Witness ==
  /\ Merged
  /\ fResult.success
  /\ \E w \in Workers : wk[w].exit = "seekFailed"
  /\ \E w \in Workers :
       /\ wk[w].exit = "requestFailed"
       /\ wk[w].messages # <<>>
       /\ HasId(fResult.messages, wk[w].messages[1].id)


\* ------------------------------------------------------------------------
\* Claims about ArchivedChatFetcher.fetchSegment
\* ------------------------------------------------------------------------
\* the worker whose response was processed last, that response, and its segment
LastWorker == flast.arg.w
LastResponse == flast.arg.r
WorkerStepped == flast.op = "workerResponse"

InRange(offsetMs, range) == offsetMs >= range.start /\ offsetMs < range.end

\* C12: every message a worker has collected lies in the worker's segment:
\* segment start <= timestamp (in ms) < segment end
C12_CollectedWithinSegment ==
  \A w \in Workers : \A k \in 1..Len(wk[w].messages) :
    InRange(wk[w].messages[k].timestamp, segments[w])

\* a worker got one fragment holding a message inside and a message outside its
\* segment, and collected the first only
C12_Witness ==
  /\ WorkerStepped
  /\ \E k \in 1..Len(LastResponse.items) :
       ~InRange(LastResponse.items[k].offsetMs, segments[LastWorker])
  /\ \E k \in 1..Len(LastResponse.items) :
       InRange(LastResponse.items[k].offsetMs, segments[LastWorker])
  /\ Len(wk[LastWorker].messages) = 1
  /\ wk[LastWorker].fragments = 1


\* ------------------------------------------------------------------------
\* Claims about the bootstrap of ArchivedChatFetcher.fetchAllMessages
\* ------------------------------------------------------------------------
NoWorkerLaunched == \A w \in Workers : wk[w].pc = "idle"

\* the chat page was the last response: it held a chat continuation object with no
\* unfiltered sub-menu entry and a first page without continuation
FirstPageOnly ==
  /\ flast.op = "chatPage"
  /\ flast.arg.ok /\ flast.arg.parsed /\ flast.arg.lcc
  /\ ~flast.arg.unfiltered
  /\ ~flast.arg.continuation

\* C14: no unfiltered continuation and a first page without continuation: the
\* fetch has returned success with exactly the messages of the first page, the
\* one 'complete' event is the last progress event, no worker was launched and
\* no POST request issued
C14_FirstPageOnlyIsComplete ==
  FirstPageOnly =>
    /\ fpc = "done"
    /\ fResult = Success(parseActions(flast.arg.items, 0))
    /\ progress.status = "complete"
    /\ progress.completes = 1
    /\ progress.fetchedMessages = Len(flast.arg.items)
    /\ NoWorkerLaunched
    /\ segments = <<>>
    /\ http.post = 0

\* the early return with a first page that holds messages
C14_Witness ==
  /\ FirstPageOnly
  /\ Len(flast.arg.items) = MaxItems
  /\ fResult.success
  /\ Len(fResult.messages) = MaxItems

\* the last response made a bootstrap step fail
BootstrapFailed ==
  \/ /\ flast.op = "videoPage"
     /\ \/ ~flast.arg.ok
        \/ flast.arg.ytcfg \in {"none", "partial"}
        \/ ~flast.arg.initialData
        \/ ~flast.arg.continuation
  \/ /\ flast.op = "chatPage"
     /\ \/ ~flast.arg.ok
        \/ ~flast.arg.parsed
        \/ ~flast.arg.lcc

\* the GET requests issued up to and including the step that failed
RequestsUpTo(op) == IF op = "videoPage" THEN 1 ELSE 2

StopsWorker(r, range) ==
  \/ r.kind = "failed"
  \/ r.kind = "noLcc"
  \/ parsedOffset(r.items) # NullOffset /\ parsedOffset(r.items) >= range.end
  \/ ~r.continuation

\* C13: a worker that processed a failed request, a response without chat
\* continuation object, a response whose last reported offset is at or past the
\* end of its segment, or a response without continuation returns without a
\* further request; after any other response it requests the continuation of
\* that response; a worker that returned issues no request again
C13_WorkerStopsOrFollows ==
  [][/\ (fpc = "workers" /\ flast'.op = "workerResponse") =>
         LET w == flast'.arg.w
             r == flast'.arg.r
         IN  IF StopsWorker(r, segments[w])
             THEN /\ wk'[w].pc = "done"
                  /\ http' = http
             ELSE /\ wk'[w].pc = "next"
                  /\ http' = [http EXCEPT !.post = http.post + 1]
     /\ \A v \in Workers : wk[v].pc = "done" => wk'[v] = wk[v]
    ]_vars

\* a worker stopped at a response that reports an offset past its segment's end
\* although the response carried a continuation
C13_Witness ==
  /\ WorkerStepped
  /\ LastResponse.kind = "page"
  /\ LastResponse.continuation
  /\ parsedOffset(LastResponse.items) >= segments[LastWorker].end
  /\ wk[LastWorker].pc = "done"
  /\ wk[LastWorker].exit = "pastEnd"


\* ------------------------------------------------------------------------
\* Claims about the segments (checked under SegmentSpec)
\* ------------------------------------------------------------------------
Divided == DOMAIN segments # {}

\* C11: the video is divided into exactly 10 segments; segment 0 starts at 0,
\* each segment ends where the next starts, no segment ends before it starts and
\* the last ends 60000 ms after the duration; a duration of 600000 ms gives
\* [i*60000, (i+1)*60000) for i < 9 and [540000, 660000) for segment 9
C11_SegmentsPartition ==
  Divided =>
    LET D == videoDurationMs(videoHtml)
        lastSeg == PARALLEL_WORKERS - 1
    IN  /\ D > 0
        /\ DOMAIN segments = 0..lastSeg
        /\ Cardinality(DOMAIN segments) = 10
        /\ segments[0].start = 0
        /\ \A i \in 0..(lastSeg - 1) : segments[i].end = segments[i + 1].start
        /\ \A i \in 0..lastSeg : segments[i].start <= segments[i].end
        /\ segments[lastSeg].end = D + 60000
        /\ D = 600000 =>
             /\ \A i \in 0..8 :
                  segments[i] = [start |-> i * 60000, end |-> (i + 1) * 60000]
             /\ segments[9] = [start |-> 540000, end |-> 660000]

\* the segments of a video of 600 seconds
C11_Witness ==
  /\ Divided
  /\ videoHtml.lengthSeconds = 600
  /\ segments[9] = [start |-> 540000, end |-> 660000]
  /\ segments[1] = [start |-> 60000, end |-> 120000]


\* ------------------------------------------------------------------------
\* Claims about sendChatDataTo (checked under ChunkSpec)
\* ------------------------------------------------------------------------
ChatDataSent == last.op = "sendChatDataTo"

\* the concatenation of the chunks of the payloads ps, in the order posted
RECURSIVE ConcatChunks(_)
ConcatChunks(ps) ==
  IF ps = <<>> THEN <<>> ELSE Head(ps).data.chunk \o ConcatChunks(Tail(ps))

\* C21: for a buffer of n messages sendChatDataTo posts ceil(n/100) chunks with
\* chunkIndex 0, 1, 2, ... in this order, each of at most 100 messages and with
\* the same totalChunks, whose concatenation is the buffer, and then one
\* chat-data-complete with totalMessages = n
C21_ChunksThenComplete ==
  ChatDataSent =>
    LET n == Len(chatData)
        c == Len(out) - 1
        chunks == SubSeq(out, 1, c)
    IN  /\ c >= 0
        /\ c * 100 >= n
        /\ n > 0 => (c - 1) * 100 < n
        /\ n = 0 => c = 0
        /\ \A k \in 1..c :
             /\ out[k].name = "chat-data-chunk"
             /\ out[k].to = "sidebar"
             /\ out[k].data.chunkIndex = k - 1
             /\ out[k].data.totalChunks = c
             /\ Len(out[k].data.chunk) <= 100
        /\ ConcatChunks(chunks) = chatData
        /\ out[c + 1].name = "chat-data-complete"
        /\ out[c + 1].data = [totalMessages |-> n]

\* a buffer whose last chunk is not full: three chunks, the third shorter
C21_Witness ==
  /\ ChatDataSent
  /\ Len(chatData) > 2 * CHUNK_SIZE
  /\ Len(out) = 4
  /\ Len(out[3].data.chunk) < CHUNK_SIZE


\* ------------------------------------------------------------------------
\* Claims about the archived path and the retry (checked under Spec)
\* ------------------------------------------------------------------------
\* the step is the one in which fetchChatData takes the archived path
ArchivedStarted(step) ==
  \/ step.op = "probeDone" /\ step.res = "archived"
  \/ step.op = "metadataDone" /\ step.res = "notLive"

Downloads(ts, v) == CopiesIn(Task(v, "download"), ts)

\* C22: the step that takes the archived path opens the standalone window when
\* auto-open is enabled and emits chat-loading {loading: true}, and only then
\* starts the download; it posts no chat-data-chunk and no chat-data-complete.
\* A download is started in no other step, and the transcript is posted only by
\* the step that ends a download started before
C22_LoadingBeforeDownload ==
  [][/\ ArchivedStarted(last') =>
          /\ Len(out') >= 1
          /\ out'[1] = Payload("sidebar", "chat-loading", Loading(TRUE))
          /\ ~Posted(out', "chat-data-chunk")
          /\ ~Posted(out', "chat-data-complete")
          /\ last'.arg.autoOpen => isStandaloneWindowOpen'
          /\ Downloads(tasks', last'.video) = Downloads(tasks, last'.video) + 1
     /\ \A v \in Videos :
          Downloads(tasks', v) > Downloads(tasks, v) =>
            ArchivedStarted(last') /\ last'.video = v
     /\ (last'.op = "downloadDone") =>
          /\ Downloads(tasks, last'.video) >= 1
          /\ Downloads(tasks', last'.video) = Downloads(tasks, last'.video) - 1
    ]_vars

\* the archived path was taken with auto-open enabled: the window is open and not
\* yet ready, the loading state was posted and the download is under way
C22_Witness ==
  /\ last.op = "probeDone"
  /\ last.res = "archived"
  /\ last.arg.autoOpen
  /\ isStandaloneWindowOpen
  /\ ~isStandaloneWindowReady
  /\ readyInFlight
  /\ out = <<Payload("sidebar", "chat-loading", Loading(TRUE))>>
  /\ Downloads(tasks, last.video) = 1


\* C23: a retry re-runs the fetch for the video loaded in the player, from the
\* availability check on and with live polling stopped, and does nothing when no
\* video is loaded. Stated for a retry that directly follows a file-loaded
\* event, whose URL is then what the player has loaded
C23_RetryFetchesLoadedVideo ==
  [][(last.op = "fileLoaded" /\ last'.op = "retryFetch") =>
       IF last.video \in Videos
       THEN /\ tasks' = AddTask(Task(last.video, "probe"))
            /\ liveChatPollingTimer' = NoTimer
            /\ ~isLiveStream'
       ELSE /\ tasks' = tasks
            /\ out' = <<>>]_vars


\* ------------------------------------------------------------------------
\* Claims about the message ids (checked under IdSpec)
\* ------------------------------------------------------------------------
\* the messages one run of fetchAllMessages holds: its result once it returned,
\* the first page and the workers' collections before
RECURSIVE Collected(_)
Collected(w) == IF w = NumWorkers THEN <<>> ELSE wk[w].messages \o Collected(w + 1)

SessionMessages == IF fpc = "done" THEN fResult.messages ELSE allMessages \o Collected(0)

\* C24: no two messages of a session's buffer share a synthesized id: not in the
\* live buffer, whatever polls were issued before a restart, and not among the
\* messages of the first page and of the concurrent workers of an archived fetch
C24_SynthesizedIdsUnique ==
  /\ \A i, j \in 1..Len(chatData) :
       (i # j /\ chatData[i].src = "live" /\ chatData[j].src = "live") =>
         chatData[i].n # chatData[j].n
  /\ \A i, j \in 1..Len(SessionMessages) :
       (i # j /\ SessionMessages[i].id.src = "archived") =>
         SessionMessages[i].id # SessionMessages[j].id
  /\ \A i \in 1..Len(chatData) : chatData[i].src = "live" => chatData[i].n < liveMessageIndex
  /\ \A i \in 1..Len(SessionMessages) :
       SessionMessages[i].id.src = "archived" => SessionMessages[i].id.index < messageIndex

\* the live buffer holds the batch of a poll issued before a restart and a batch
\* of the video that was started then
C24_Witness ==
  /\ Len(chatData) = 2
  /\ chatData[1].src = "live"
  /\ chatData[2].src = "live"
  /\ chatData[1].video # chatData[2].video
  /\ chatData[2].video = currentVideoUrl


\* ------------------------------------------------------------------------
\* Claims about colorToHex (checked under ColorSpec)
\* ------------------------------------------------------------------------
\* the two lowercase hexadecimal digits of a byte
ByteHex(b) == <<HexDigits[(b \div 16) + 1], HexDigits[(b % 16) + 1]>>

\* C28: for a colour number c, colorToHex returns '#', then the six lowercase
\* hexadecimal digits of the low 24 bits of c mod 2^32 (red, green, blue), then
\* the two digits of its high 8 bits (alpha), each byte zero-padded
C28_ColorIsRgbThenAlpha ==
  (output.returned /\ input.fn = "colorToHex" /\ input.colorNum # Undefined) =>
    LET c == input.colorNum[1]
        high == c.hi % 65536
        alpha == high \div 256
        red == high % 256
        green == c.lo \div 256
        blue == c.lo % 256
    IN  output.value =
          Some(<<"#">> \o ByteHex(red) \o ByteHex(green) \o ByteHex(blue)
                 \o ByteHex(alpha))

\* the signed number of the bits 0xFFAABBCC gives "#aabbccff"
C28_Witness ==
  /\ output.returned
  /\ input = [fn |-> "colorToHex", colorNum |-> Some(Color(-86, 48076))]
  /\ output.value = Some(<<"#", "a", "a", "b", "b", "c", "c", "f", "f">>)


\* ------------------------------------------------------------------------
\* Decoded messages
\* ------------------------------------------------------------------------
ItemParsed == input.fn = "parseItem" /\ output.returned
Decoded == ItemParsed /\ output.value # Undefined
ShapeOf(item) == FirstKey(item.keys, 1)
MissingTextAndRuns(item) ==
  /\ parseMessageRuns(item.r.message).text = <<>>
  /\ parseMessageRuns(item.r.message).messageRuns = <<>>

\* C25: every decoded message has one of the six types, and carries an amount or
\* colours only as a superchat or supersticker, a sticker URL only as a
\* supersticker and a membership level only as a membership.
C25_TypeConsistentFields ==
  Decoded =>
    LET m == output.value[1]
    IN  /\ m.type \in {"text", "superchat", "supersticker", "membership", "gift",
                       "system"}
        /\ m.amount # Undefined => m.type \in {"superchat", "supersticker"}
        /\ m.colors # Undefined => m.type \in {"superchat", "supersticker"}
        /\ m.stickerUrl # Undefined => m.type = "supersticker"
        /\ m.membershipLevel # Undefined => m.type = "membership"

C25_Witness ==
  /\ Decoded
  /\ output.value[1].type = "superchat"
  /\ output.value[1].amount = Some("$5")
  /\ output.value[1].colors # Undefined
  /\ input.item.r.sticker # Undefined
  /\ input.item.r.header # Undefined

\* C26 as stated: an item of any renderer shape that has neither text nor runs
\* decodes to null, and so does an item of no recognized shape.
C26_EveryEmptyItemIsNull ==
  ItemParsed =>
    /\ MissingTextAndRuns(input.item) => output.value = Undefined
    /\ ShapeOf(input.item) = "none" => output.value = Undefined

\* C26: a text message or a viewer engagement message that has neither text nor
\* runs decodes to null, and so does an item of no recognized shape; a batch
\* holding such items still yields the messages of its other items.
C26_EmptyTextOrEngagementIsNull ==
  /\ ItemParsed =>
       /\ ( /\ ShapeOf(input.item) \in {"liveChatTextMessageRenderer",
                                         "liveChatViewerEngagementMessageRenderer"}
            /\ MissingTextAndRuns(input.item) ) => output.value = Undefined
       /\ ShapeOf(input.item) = "none" => output.value = Undefined
  /\ (input.fn = "parseActions" /\ output.returned) =>
       \A k \in 1..Len(input.items) :
         LET item == input.items[k]
         IN  IF \/ ShapeOf(item) = "none"
                \/ ( /\ ShapeOf(item) = "liveChatTextMessageRenderer"
                     /\ MissingTextAndRuns(item) )
             THEN \A j \in 1..Len(output.value) : output.value[j].id.name # item.r.id
             ELSE \E j \in 1..Len(output.value) : output.value[j].id.name = item.r.id

C26_Witness ==
  /\ input.fn = "parseActions"
  /\ output.returned
  /\ Len(input.items) = 2
  /\ ShapeOf(input.items[1]) = "none"
  /\ Len(output.value) = 1
  /\ output.value[1].id.name = "x"

\* C27: a paid message or paid sticker whose renderer defines none of its
\* colours decodes to a message whose colors field is undefined.
SourceColors(item) ==
  IF ShapeOf(item) = "liveChatPaidStickerRenderer" THEN StickerColorFields
  ELSE PaidColorFields
C27_NoColorsIsUndefined ==
  ( /\ Decoded
    /\ ShapeOf(input.item) \in {"liveChatPaidMessageRenderer",
                                "liveChatPaidStickerRenderer"}
    /\ \A f \in SourceColors(input.item) : input.item.r.colors[f] = Undefined )
  => output.value[1].colors = Undefined


\* ------------------------------------------------------------------------
\* Message list
\* ------------------------------------------------------------------------
ListShown == input.fn = "displayMessages" /\ output.returned
\* indices of the buffer's messages that are due at the position
Due ==
  {i \in 1..Len(input.messages) :
     input.currentPosition = Undefined
       \/ input.messages[i].timestamp <= input.currentPosition[1]}
\* the due indices that are kept: all, or the last maxMessages of them
Kept ==
  IF input.preferences.maxMessages > 0
  THEN {i \in Due : Cardinality({j \in Due : j > i}) < input.preferences.maxMessages}
  ELSE Due

\* C29: the list shown is exactly the buffer's messages with timestamp <= p (all
\* of them when p is null), cut to the last maxMessages of them when
\* maxMessages > 0, in buffer order for bottom-to-top and reversed for
\* top-to-bottom; after a seek to an earlier position no message with a later
\* timestamp is shown.
C29_ListIsDueMessagesCut ==
  ListShown =>
    /\ Len(output.value) = Cardinality(Kept)
    /\ \A i \in Kept :
         LET place == IF input.preferences.scrollDirection = "top-to-bottom"
                      THEN Cardinality({j \in Kept : j >= i})
                      ELSE Cardinality({j \in Kept : j <= i})
         IN  output.value[place] = input.messages[i]
    /\ input.seekFrom # Undefined =>
         \A n \in 1..Len(output.value) :
           output.value[n].timestamp <= input.currentPosition[1]

C29_Witness ==
  /\ ListShown
  /\ input.seekFrom = Some(2)
  /\ input.currentPosition = Some(1)
  /\ input.preferences = [maxMessages |-> 2, scrollDirection |-> "top-to-bottom"]
  /\ Len(input.messages) = 3
  /\ input.messages[1].timestamp = 2
  /\ Cardinality(Due) = 2
  /\ Len(output.value) = 2


\* ------------------------------------------------------------------------
\* Requests of a segment worker
\* ------------------------------------------------------------------------
\* C30: a segment worker never has more than one request awaiting its
\* response, and the request it posts after a response carries the
\* continuation of that response (its first request carries the chat page's);
\* the requests of different workers overlap.
C30_OneRequestPerWorker ==
  /\ \A w \in Workers : Len(inflight[w]) <= 1
  /\ flast.op = "chatPage" =>
       \A w \in Workers :
         inflight[w] # <<>> => inflight[w][1].continuation = InitialContinuation
  /\ flast.op = "workerResponse" =>
       LET w == flast.arg.w
       IN  inflight[w] # <<>> =>
             /\ flast.arg.r.continuation
             /\ Some(inflight[w][1].continuation) = flast.arg.continuation
             /\ inflight[w][1].playerOffsetMs = Undefined

C30_Witness ==
  /\ flast.op = "workerResponse"
  /\ flast.arg.w = 0
  /\ inflight[0] = <<followUp(Continuation(0, 1))>>
  /\ inflight[1] = <<fetchFragment(InitialContinuation, Some(segments[1].start))>>


\* ------------------------------------------------------------------------
\* Progress events of fetchAllMessages
\* ------------------------------------------------------------------------
Succeeded == fpc = "done" /\ fResult.success
Partitioned == DOMAIN segments # {}

\* C31: a successful run of fetchAllMessages has emitted exactly one 'complete'
\* progress event, which is its last progress event; where the workers were
\* launched, the event and the merge come only when every worker has returned;
\* no progress event follows a 'complete' one.
C31_OneCompleteAfterAllWorkers ==
  /\ [](Succeeded => progress.status = "complete" /\ progress.completes = 1)
  /\ [](progress.completes <= 1)
  /\ []((Partitioned /\ progress.status = "complete") =>
          \A w \in Workers : wk[w].pc = "done")
  /\ [][(Partitioned /\ allMessages' # allMessages) =>
          \A w \in Workers : wk'[w].pc = "done"]_vars
  /\ [][progress.status = "complete" => progress' = progress]_vars

C31_Witness ==
  /\ Succeeded
  /\ Partitioned
  /\ progress = [status |-> "complete", fetchedMessages |-> 2, completes |-> 1]
  /\ \A w \in Workers : wk[w].pc = "done" /\ Len(wk[w].messages) = 1


\* ------------------------------------------------------------------------
\* Live polling after a stop
\* ------------------------------------------------------------------------
PollingStopped == ~isLiveStream /\ liveChatMetadata = NoMetadata
\* the step is the end of a startLiveChat that found the stream's metadata
SessionStarts == last'.op = "metadataDone" /\ isLiveStream'
\* the step issues a live poll request
PollIssued == \E p \in BagToSet(polls') : CopiesIn(p, polls') > CopiesIn(p, polls)
\* the step is one of the events that stop polling
StopEvent ==
  \/ last'.op \in {"fileLoaded", "windowWillClose"}
  \/ last'.op = "retryFetch" /\ currentVideoUrl # Null
  \/ last'.op = "pollDone" /\ last'.res = "stopped"

\* C32: a video-load event, a retry, a window-close event and the end of the
\* stream leave polling stopped; while it is stopped and until a live session
\* starts, no step issues a live poll request and polling stays stopped, also
\* the step at which a poll that was in flight resolves, and the firing of a
\* timer such a poll has left.
C32_NoPollAfterStop ==
  [][/\ StopEvent => PollingStopped'
     /\ (PollingStopped /\ ~SessionStarts) => (PollingStopped' /\ ~PollIssued)
    ]_vars

C32_Witness ==
  /\ PollingStopped
  /\ last.op = "timerFired"
  /\ last.res = "ignored"
  /\ currentVideoUrl # Null
  /\ BagCardinality(polls) = 0
  /\ BagCardinality(tasks) = 0


\* ------------------------------------------------------------------------
\* The orchestrator with downloads that return
\* ------------------------------------------------------------------------
\* the transcript download of a fetch of video v returns
DownloadReturns(v) ==
  \E t \in BagToSet(tasks) : \E d \in DownloadOutputs :
    /\ t.pc = "download"
    /\ t.video = v
    /\ downloadArchivedChatData(t, d)
    /\ UNCHANGED <<fetchVars, callVars, webVars>>

\* the events of the host and the steps of fetchChatData; the poll requests of
\* a live session stay unanswered
FetchPathNext ==
  \/ FileLoaded
  \/ PositionChanged
  \/ onRetryFetch
  \/ onSidebarReady
  \/ onStandaloneWindowReady
  \/ toggleStandaloneWindow
  \/ WindowWillClose
  \/ ProbeDone
  \/ MetadataDone
  \/ DownloadDone

\* every utils.exec call of downloadArchivedChatData returns
FairSpec ==
  Init /\ [][FetchPathNext]_vars /\ \A v \in Videos : WF_vars(DownloadReturns(v))

\* ------------------------------------------------------------------------
\* A live session that starts while a poll of the previous one is in flight
\* ------------------------------------------------------------------------
\* the state after file-loaded for live video "B", a first session whose
\* first poll is still in flight, and retry-fetch: the second fetchChatData has
\* stopped the first session and waits for the metadata of the second.
\* tokenCount counts the tokens issued from here on; the first session's
\* bootstrap token is number 0.
LiveInit ==
  /\ currentVideoUrl = "B"
  /\ chatData = <<>>
  /\ liveMessageIndex = 0
  /\ isStandaloneWindowOpen = FALSE
  /\ isStandaloneWindowReady = FALSE
  /\ isLiveStream = FALSE
  /\ liveChatMetadata = NoMetadata
  /\ liveChatPollingTimer = NoTimer
  /\ timers = {}
  /\ polls = SetToBag({Poll(Cont("B", 0, 0))})
  /\ tasks = SetToBag({Task("B", "metadata")})
  /\ tokenCount = 0
  /\ readyInFlight = FALSE
  /\ out = <<>>
  /\ last = Step("init", Null, "none", NoArg)
  /\ FetchInit
  /\ NoWebview
  /\ NoCall

LiveNext ==
  \/ MetadataDone
  \/ PollDone
  \/ TimerFired

LiveSpec == LiveInit /\ [][LiveNext]_vars

\* ------------------------------------------------------------------------
\* Chunk round trip
\* ------------------------------------------------------------------------
\* the webview has handled every payload of the last sendChatDataTo call
DeliveryReceived == last.op = "sendChatDataTo" /\ inbox = <<>>

\* C33: once the webview has handled, in order, all the chunks and the
\* chat-data-complete of one sendChatDataTo call, its messages are the plugin's
\* buffer, message by message, and it stores no chunk, so that the next
\* delivery starts from none.
C33_ChunkRoundTrip ==
  DeliveryReceived =>
    /\ hook.messages = chatData
    /\ DOMAIN hook.chunks = {}
    /\ hook.expectedChunks = 0

C33_Witness ==
  /\ DeliveryReceived
  /\ currentVideoUrl = "B"
  /\ Len(chatData) = CHUNK_SIZE + 1
  /\ Len(hook.messages) = CHUNK_SIZE + 1
  /\ hook.messages[CHUNK_SIZE + 1] = Msg("B", "archived", CHUNK_SIZE + 1)


\* ------------------------------------------------------------------------
\* Fetches in flight
\* ------------------------------------------------------------------------
\* number of fetchChatData invocations for video v suspended at an await
FetchesInFlight(v) ==
  LET ts == {t \in BagToSet(tasks) : t.video = v}
      RECURSIVE Count(_)
      Count(S) == IF S = {} THEN 0
                  ELSE LET t == CHOOSE x \in S : TRUE
                       IN  CopiesIn(t, tasks) + Count(S \ {t})
  IN  Count(ts)

\* C34: at most one fetch of the current video is in flight, and a
\* sidebar-ready or retry signal that arrives while one is in flight starts no
\* second one.
C34_OneFetchInFlight ==
  /\ [](currentVideoUrl # Null => FetchesInFlight(currentVideoUrl) <= 1)
  /\ [][( /\ last'.op \in {"sidebarReady", "retryFetch"}
          /\ currentVideoUrl # Null
          /\ FetchesInFlight(currentVideoUrl) >= 1 ) => tasks' = tasks]_vars


\* ------------------------------------------------------------------------
\* Polls of an earlier live session
\* ------------------------------------------------------------------------
\* the step is the resolution of poll p, issued for another session than the
\* one that is active
StalePollResolves(p) ==
  /\ last'.op = "pollDone"
  /\ CopiesIn(p, polls') < CopiesIn(p, polls)
  /\ liveChatMetadata # NoMetadata
  /\ p.continuation.sess # liveChatMetadata.continuation.sess

\* C35: a poll issued for an earlier live session that resolves while a newer
\* session is active leaves that session's cursor and metadata as they are and
\* schedules no poll timer.
C35_StalePollLeavesSession ==
  [][\A p \in BagToSet(polls) :
       StalePollResolves(p) =>
         /\ liveChatMetadata' = liveChatMetadata
         /\ timers' = timers
         /\ liveChatPollingTimer' = liveChatPollingTimer]_vars


\* ------------------------------------------------------------------------
\* Pending poll timers
\* ------------------------------------------------------------------------
\* C36: a pending poll timer implies an active live session (live flag set and
\* session metadata present), and at most one poll timer is pending.
C36_TimerImpliesSession ==
  /\ timers # {} => (isLiveStream /\ liveChatMetadata # NoMetadata)
  /\ Cardinality(timers) <= 1


\* ------------------------------------------------------------------------
\* Continuations sent by live polls
\* ------------------------------------------------------------------------
\* the step sends a live poll request p
PollSent(p) == CopiesIn(p, polls') > CopiesIn(p, polls)

\* the step is a poll's resolution that replaces the cursor of the active session
CursorReplaced ==
  /\ last'.op = "pollDone"
  /\ liveChatMetadata # NoMetadata
  /\ liveChatMetadata' # NoMetadata
  /\ liveChatMetadata'.continuation # liveChatMetadata.continuation

\* C37: every live poll request carries the cursor of the active session,
\* which is the session's bootstrap continuation or the continuation a poll of
\* that session returned last; a cursor is replaced only by a token the server
\* has just issued, so a superseded continuation is not sent again.
C37_PollCarriesSessionCursor ==
  [][/\ \A p \in BagToSet(polls') :
          PollSent(p) =>
            /\ liveChatMetadata' # NoMetadata
            /\ p.continuation = liveChatMetadata'.continuation
            /\ p.continuation.sess = liveChatMetadata'.context
     /\ CursorReplaced =>
          /\ liveChatMetadata'.continuation.n > tokenCount
          /\ liveChatMetadata'.context = liveChatMetadata.context
    ]_vars

\* ------------------------------------------------------------------------
\* Posts to the standalone window
\* ------------------------------------------------------------------------
\* C38: a step posts to the standalone window only if the window is then open
\* and has sent its ready signal since it was opened, and in every state the
\* ready flag implies the open flag.
C38_WindowPostsWhenOpenAndReady ==
  /\ [](isStandaloneWindowReady => isStandaloneWindowOpen)
  /\ [][PostedTo(out', "window") # <<>> =>
          (isStandaloneWindowOpen' /\ isStandaloneWindowReady')]_vars

\* ------------------------------------------------------------------------
\* The loading state
\* ------------------------------------------------------------------------
\* a fetch of video v has emitted chat-loading {loading: true} and waits for
\* its download
Downloading(v) == CopiesIn(Task(v, "download"), tasks) > 0

\* the step is the return of the download of a fetch of video v
DownloadReturned(v) ==
  CopiesIn(Task(v, "download"), tasks') < CopiesIn(Task(v, "download"), tasks)

\* the step ends by emitting chat-loading {loading: false}
EmitsLoadingFalse ==
  LET ps == PostedTo(out', "sidebar")
  IN  /\ ps # <<>>
      /\ ps[Len(ps)].name = "chat-loading"
      /\ ~ps[Len(ps)].data.loading

\* the last step was the return of the download of a fetch of video v, and it
\* ended by emitting chat-loading {loading: false}
LoadingEnded(v) ==
  /\ last.op = "downloadDone"
  /\ last.video = v
  /\ LET ps == PostedTo(out, "sidebar")
     IN  ps # <<>> /\ ps[Len(ps)] = Payload("sidebar", "chat-loading", Loading(FALSE))

\* the payloads ps leave the webview that handles them in the loading state
LeftLoading(ps) ==
  /\ ps # <<>>
  /\ \A st \in AppStates : onMessages(st, ps).loading

\* something is under way that will post to the webviews again: a fetch, or
\* a live session
FetchPending == BagCardinality(tasks) > 0 \/ isLiveStream

\* a fetch that has emitted chat-loading {loading: true} emits
\* chat-loading {loading: false} once its download returns, whatever the
\* download's outcome
LoadingEndsPerFetch ==
  /\ [][\A v \in Videos : DownloadReturned(v) => EmitsLoadingFalse]_vars
  /\ \A v \in Videos : Downloading(v) ~> LoadingEnded(v)

\* C39: every fetch that has emitted chat-loading {loading: true} emits
\* chat-loading {loading: false} once its download returns, on success and on
\* failure, and no step leaves a webview in the loading state when no fetch
\* and no live session is under way to end that state.
C39_LoadingEnds ==
  /\ LoadingEndsPerFetch
  /\ [][\A to \in {"sidebar", "window"} :
          LeftLoading(PostedTo(out', to)) => FetchPending']_vars

\* ------------------------------------------------------------------------
\* A failed archived download
\* ------------------------------------------------------------------------
\* the payloads among ps with one of the names in names
Named(ps, names) == SelectSeq(ps, LAMBDA p : p.name \in names)

\* the step is the end of a fetch whose archived download failed
DownloadFailed == last'.op = "downloadDone" /\ last'.res # "ok"

\* C40: a failed archived download leaves the message buffer as it was, emits
\* chat-error once (one post to the sidebar, and one to the standalone window
\* when it is open and ready) and emits no chat-data-chunk and no
\* chat-data-complete.
C40_FailedDownloadKeepsBuffer ==
  [][DownloadFailed =>
       /\ chatData' = chatData
       /\ Len(Named(PostedTo(out', "sidebar"), {"chat-error"})) = 1
       /\ Len(Named(PostedTo(out', "window"), {"chat-error"}))
            = (IF isStandaloneWindowOpen /\ isStandaloneWindowReady THEN 1 ELSE 0)
       /\ Named(out', {"chat-data-chunk", "chat-data-complete"}) = <<>>
    ]_vars

C40_Witness ==
  /\ last.op = "downloadDone"
  /\ last.res = "noFile"
  /\ Len(chatData) > 0
  /\ isStandaloneWindowOpen
  /\ isStandaloneWindowReady
  /\ Len(Named(out, {"chat-error"})) = 2

====
